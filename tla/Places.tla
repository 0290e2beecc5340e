------------------------------- MODULE Places --------------------------------
(* Places of lines in a log, or of steps in the details of a module: those of *)
(* interest are a set, their order is the order of the numbers.               *)
EXTENDS Integers, Sequences, SequencesExt, FiniteSetsExt

(* The last n of some places.                                                 *)
LastOf(S, n) == {i \in S : Cardinality({j \in S : j > i}) < n}

(* One more place: part of the last group when it is close to it.             *)
Join(groups, i, gap) ==
  IF groups # <<>> /\ i - Max(groups[Len(groups)]) <= gap
  THEN [groups EXCEPT ![Len(groups)] = @ \cup {i}]
  ELSE Append(groups, {i})

(* The places in S of 1 .. n, one after the other, in groups of those that    *)
(* follow each other by gap at most.                                          *)
Groups(S, n, gap) ==
  LET upto[i \in 0 .. n] ==
        IF i = 0 THEN <<>>
        ELSE IF i \in S THEN Join(upto[i - 1], i, gap) ELSE upto[i - 1]
  IN  upto[n]
=============================================================================
