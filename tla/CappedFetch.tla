----------------------------- MODULE CappedFetch -----------------------------
(* How openqa-llm-investigate reads a file of a job (OpenQA.job_file and      *)
(* _capped in http.py): the body arrives in chunks of any size, and only its  *)
(* beginning and its end are kept when it is longer than the limit, and of    *)
(* them only whole lines.  What has been read once, or could not be read, is  *)
(* not read again.                                                            *)
(*                                                                            *)
(* A byte is represented by its position in the body.                         *)
EXTENDS Integers, Sequences, FiniteSetsExt

CONSTANTS
  MaxBytes,   \* max_bytes
  Chunks,     \* the sizes of chunks
  Newlines,   \* where the bytes of a body are newlines: sets of positions
  BodyBound   \* bodies are not longer than this

ASSUME FetchAssumption ==
  /\ MaxBytes \in Nat /\ MaxBytes > 1 /\ MaxBytes % 2 = 0
  /\ Chunks \subseteq Nat /\ Newlines \subseteq SUBSET Nat /\ BodyBound \in Nat

VARIABLES
  file,   \* the file in the cache: "absent", or where its transfer is
  head,   \* the first bytes
  tail,   \* the last ones
  total,  \* how many bytes have arrived
  newlines, \* where the body has its newlines
  omitted \* how many bytes the note says are left out

fetchVars == <<file, head, tail, total, newlines, omitted>>

half == MaxBytes \div 2

FetchTypeOK ==
  /\ file \in {"absent", "streaming", "full", "capped", "failed"}
  /\ head \in Seq(Nat) /\ tail \in Seq(Nat) /\ total \in Nat
  /\ newlines \subseteq Nat /\ omitted \in Nat

FetchInit ==
  /\ file = "absent" /\ head = <<>> /\ tail = <<>> /\ total = 0
  /\ newlines = {} /\ omitted = 0
-----------------------------------------------------------------------------
(* The n bytes that arrive next.                                              *)
Chunk(n) == [i \in 1 .. n |-> total + i]

(* chunk[:k], chunk[k:] and what del tail[:-k] leaves.                        *)
Take(s, k) == SubSeq(s, 1, IF k < Len(s) THEN k ELSE Len(s))
Drop(s, k) == SubSeq(s, k + 1, Len(s))
Newest(s, k) == SubSeq(s, IF Len(s) > k THEN Len(s) - k + 1 ELSE 1, Len(s))

(* rsplit("\n", 1)[0] and split("\n", 1)[-1]: what stands before the last or  *)
(* after the first newline, or everything if there is none.                   *)
Breaks(s) == {i \in DOMAIN s : s[i] \in newlines}
BeforeLast(s) == IF Breaks(s) = {} THEN s ELSE SubSeq(s, 1, Max(Breaks(s)) - 1)
AfterFirst(s) == IF Breaks(s) = {} THEN s ELSE SubSeq(s, Min(Breaks(s)) + 1, Len(s))

(* job_file: a file that is not in the cache is requested.                    *)
Request ==
  /\ file = "absent" /\ file' = "streaming" /\ newlines' \in Newlines
  /\ head' = <<>> /\ tail' = <<>> /\ total' = 0 /\ omitted' = 0

(* Mutant of Receive: the head is filled with whole chunks only.              *)
ReceiveWhole ==
  /\ file = "streaming"
  /\ \E n \in Chunks :
       /\ total + n <= BodyBound
       /\ total' = total + n
       /\ IF Len(head) + n <= half
          THEN head' = head \o Chunk(n) /\ tail' = tail
          ELSE head' = head /\ tail' = Newest(tail \o Chunk(n), half)
  /\ UNCHANGED <<file, newlines, omitted>>

(* A chunk fills up the head; what is left pushes older bytes out of the tail.*)
Receive ==
  /\ file = "streaming"
  /\ \E n \in Chunks :
       /\ total + n <= BodyBound
       /\ total' = total + n
       /\ LET room == half - Len(head)
          IN  /\ head' = head \o Take(Chunk(n), room)
              /\ tail' = Newest(tail \o Drop(Chunk(n), room), half)
  /\ UNCHANGED <<file, newlines, omitted>>

(* The body is complete: the text, or the lines of its head and tail around a *)
(* note, which counts the bytes between the two halves.                       *)
Complete ==
  /\ file = "streaming"
  /\ \/ total <= MaxBytes /\ file' = "full" /\ UNCHANGED <<head, tail, omitted>>
     \/ /\ total > MaxBytes /\ file' = "capped"
        /\ omitted' = total - Len(head) - Len(tail)
        /\ head' = BeforeLast(head) /\ tail' = AfterFirst(tail)
  /\ UNCHANGED <<total, newlines>>

(* No such file, or the connection is lost: "" stands for it from now on.     *)
FetchFails ==
  /\ file = "streaming" /\ file' = "failed"
  /\ head' = <<>> /\ tail' = <<>> /\ total' = 0 /\ newlines' = {} /\ omitted' = 0

FetchNext == Request \/ Receive \/ Complete \/ FetchFails

FetchSpec == FetchInit /\ [][FetchNext]_fetchVars
-----------------------------------------------------------------------------
(* _capped: however the body is cut into chunks, a file that is not longer    *)
(* than the limit is returned byte by byte, and of a longer one the first and *)
(* the last half are, with the number of bytes between them.  Only the rest of*)
(* the line at the inner edge of a half is left out without being counted:    *)
(* what is missing there is cut off at a newline and has no other one in it.  *)
Bytes(from, to) == [i \in 1 .. to - from + 1 |-> from + i - 1]

OnlyEdgesLost ==
  /\ file = "full" => head \o tail = Bytes(1, total)
  /\ file = "capped" =>
       LET h == Len(head)
           t == total - Len(tail)
           lost == h + 1 .. half
           missed == total - half + 1 .. t
       IN  /\ head = Bytes(1, h) /\ tail = Bytes(t + 1, total)
           /\ h <= half /\ total - t <= half
           /\ omitted = total - MaxBytes /\ omitted > 0
           /\ newlines \cap lost = lost \cap {h + 1}
           /\ newlines \cap missed = missed \cap {t}
=============================================================================
