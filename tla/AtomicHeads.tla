----------------------------- MODULE AtomicHeads -----------------------------
(***************************************************************************)
(* What an authority store promises its callers, whatever becomes of their *)
(* requests and answers: immutable slots that are written once, and heads  *)
(* that only move forward, each move together with all the slots it        *)
(* publishes and at most once for one request.                             *)
(***************************************************************************)
EXTENDS Naturals

CONSTANTS HeadKeys,        \* the mutable heads
          ImmutableKeys,   \* the immutable slots
          OutcomeKeys,     \* those only the move of a head may write
          Bodies,          \* what a slot or a head may hold
          Generations,     \* the head generations, numbers from 1
          Batches          \* the outcomes that may become visible with a head

\* A written slot.
Entry == [slot : ImmutableKeys, body : Bodies]

VARIABLES slots,        \* the written slots
          generation,   \* of each head, 0 before it exists
          content       \* the body of each head

\* No slot holds two bodies.
Consistent(S) == \A e, f \in S : e.slot = f.slot => e = f

Init == /\ slots = {}
        /\ generation = [k \in HeadKeys |-> 0]
        /\ \A k \in HeadKeys : content[k] \notin Bodies

\* One slot is written on its own.
Put(e) == /\ e.slot \notin OutcomeKeys
          /\ slots' = slots \cup {e}
          /\ Consistent(slots')
          /\ UNCHANGED <<generation, content>>

\* A head appears or moves forward, and its slots become visible with it.
Publish(k, g, b, E) ==
    /\ g > generation[k]
    /\ slots' = slots \cup E
    /\ Consistent(slots')
    /\ generation' = [generation EXCEPT ![k] = g]
    /\ content' = [content EXCEPT ![k] = b]

Next == \/ \E e \in Entry : Put(e)
        \/ \E k \in HeadKeys, g \in Generations, b \in Bodies, E \in Batches \cup {{}} :
              Publish(k, g, b, E)

Spec == Init /\ [][Next]_<<slots, generation, content>>
==============================================================================
