------------------------------ MODULE Accesses ------------------------------
(* Places in a sequence of bus accesses: beat number `beat` of access `of`. *)
EXTENDS Naturals

First == [of |-> 1, beat |-> 0]
Never == [of |-> 0, beat |-> 0]

\* The beat that follows.
After(accesses, place) ==
    IF place.beat + 1 < accesses[place.of].len
      THEN [place EXCEPT !.beat = @ + 1]
      ELSE [of |-> place.of + 1, beat |-> 0]
=============================================================================
