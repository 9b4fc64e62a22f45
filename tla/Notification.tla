---------------------------- MODULE Notification ----------------------------
(***************************************************************************)
(* What an event emitter promises: an event is told to every registered    *)
(* listener once, in the order of registration, unless one of them throws. *)
(* Who is removed, or expires, is not told any more; who is added is told  *)
(* of later events.                                                        *)
(***************************************************************************)
EXTENDS Naturals, Sequences, SequencesExt, Selection

CONSTANTS Listeners, Nobody

VARIABLES
  registered, \* the listeners, in the order in which they were added
  telling     \* emissions in progress, innermost last: the listener being
              \* told and those still to be told, [now, rest]

Init == registered = <<>> /\ telling = <<>>

Without(s, l) == Those(s, Listeners \ {l})

Add(l) == registered' = Append(registered, l) /\ UNCHANGED telling

\* remove_listener, or the end of a listener; one being told is there to the end
Drop(l) == /\ registered' = Without(registered, l)
           /\ telling' = [k \in DOMAIN telling |->
                            [telling[k] EXCEPT !.rest = Without(@, l)]]

Emit == /\ telling' = Append(telling, [now |-> Nobody, rest |-> registered])
        /\ UNCHANGED registered

Tell == /\ telling # <<>>
        /\ LET e == Last(telling) IN
             /\ e.now = Nobody /\ e.rest # <<>>
             /\ telling' = Append(Front(telling), [now |-> Head(e.rest), rest |-> Tail(e.rest)])
        /\ UNCHANGED registered

Told == /\ telling # <<>> /\ Last(telling).now # Nobody
        /\ telling' = Append(Front(telling), [Last(telling) EXCEPT !.now = Nobody])
        /\ UNCHANGED registered

\* The listener being told throws: those after it do not hear of this event
Cut == /\ telling # <<>> /\ Last(telling).now # Nobody
       /\ telling' = Front(telling)
       /\ UNCHANGED registered

Done == /\ telling # <<>> /\ Last(telling) = [now |-> Nobody, rest |-> <<>>]
        /\ telling' = Front(telling)
        /\ UNCHANGED registered

Next == (\E l \in Listeners : Add(l) \/ Drop(l)) \/ Emit \/ Tell \/ Told \/ Cut \/ Done

Spec == Init /\ [][Next]_<<registered, telling>>
=============================================================================
