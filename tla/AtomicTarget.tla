---------------------------- MODULE AtomicTarget ----------------------------
(***************************************************************************)
(* What an observation of a category target promises: it is as if the      *)
(* whole answer had been read at one instant, from one block canonical and *)
(* confirmed at that instant.  CategoryTarget makes it of a dozen remote   *)
(* reads between which the chain moves.                                    *)
(***************************************************************************)
EXTENDS Naturals, Sequences

CONSTANTS
    Calls,
    Inputs,
    Depth,            \* confirmations an observed block has
    Verdict(_, _),    \* what a block says of an input, None if it says nothing
    None

VARIABLES
    chain,            \* the canonical chain, a sequence of blocks
    answer            \* answer[c]: the observation of call c, or None

vars == <<chain, answer>>

Init == answer = [c \in Calls |-> None]

\* The chain grows or is reorganised, never into a shorter one.
MoveChain ==
    /\ Len(chain') >= Len(chain)
    /\ UNCHANGED answer

\* A call answers with what one confirmed block says.
Observe(c) ==
    /\ answer[c] = None
    /\ \E i \in Inputs, n \in 1..Len(chain) :
          /\ n + Depth <= Len(chain)
          /\ Verdict(chain[n], i) # None
          /\ answer' = [answer EXCEPT ![c] =
                           [input |-> i, number |-> n, block |-> chain[n],
                            assurance |-> Verdict(chain[n], i)]]
    /\ UNCHANGED chain

Next == MoveChain \/ \E c \in Calls : Observe(c)

Spec == Init /\ [][Next]_vars
=============================================================================
