---------------------------- MODULE EventEmitter ----------------------------
(***************************************************************************)
(* EventEmitter of utils/event_emitter.hpp: a vector of weak pointers,     *)
(* which emit_event walks by std::remove_if, calling who is alive, moving  *)
(* those to be kept forward, and erasing the rest.                         *)
(*                                                                         *)
(* A listener is called in the middle of that walk and may use the emitter *)
(* itself; whatever changes the size of the vector then leaves the walk    *)
(* with iterators that are no longer valid.                                *)
(***************************************************************************)
EXTENDS Naturals, Sequences, SequencesExt, Selection

CONSTANTS Listeners,
          Expiring, \* the listeners whose last shared_ptr may go
          Reenters, \* what a listener does when called: "add", "remove", "emit"
          MaxSize,  \* bound: entries in the vector
          MaxNest   \* bound: emissions inside one another

Empty == "empty"  \* a weak_ptr that was moved from
Nobody == "nobody"

ASSUME EmitterAssumption ==
  /\ Expiring \subseteq Listeners /\ Reenters \subseteq {"add", "remove", "emit"}
  /\ MaxSize \in Nat /\ MaxNest \in Nat
  /\ Empty \notin Listeners /\ Nobody \notin Listeners

VARIABLES
  list,      \* listeners_
  live,      \* the listeners some shared_ptr owns
  walks,     \* walks of remove_if, innermost last: the iterators first, result
             \* and last (as positions), and whether a listener is being called
  wanted,    \* the listeners the client has added and not removed
  undefined  \* an iterator was used that is not valid any more

emitter_vars == <<list, live, walks, wanted, undefined>>

EmitterInit == /\ list = <<>> /\ live = Listeners /\ walks = <<>>
               /\ wanted = {} /\ undefined = FALSE

Walk == Last(walks)
Walking == walks # <<>> /\ ~undefined
Update(w) == walks' = Append(Front(walks), w)

\* Outside of emissions anything goes, in a listener what Reenters says
May(op) == /\ ~undefined
           /\ walks # <<>> => Walk.calling /\ op \in Reenters

-----------------------------------------------------------------------------
(* The client and its listeners                                            *)

\* emplace_back, which may reallocate the vector
AddListener(l) ==
  /\ May("add") /\ l \in live /\ Len(list) < MaxSize
  /\ list' = Append(list, l)
  /\ wanted' = wanted \cup {l}
  /\ undefined' \in {FALSE, walks # <<>>}
  /\ UNCHANGED <<live, walks>>

\* remove_listener also drops what has expired
RemoveListener(l) ==
  /\ May("remove") /\ l \in live
  /\ list' = Those(list, live \ {l})
  /\ wanted' = wanted \ {l}
  /\ undefined' = (walks # <<>> /\ list' # list)
  /\ UNCHANGED <<live, walks>>

\* The last shared_ptr goes; a listener that is being called is held by lock()
Expire(l) ==
  /\ l \in live \cap Expiring
  /\ \A k \in DOMAIN walks : walks[k].calling => list[walks[k].first] # l
  /\ live' = live \ {l}
  /\ UNCHANGED <<list, walks, wanted, undefined>>

\* A walk one entry too long
EmitTooFar ==
  /\ May("emit") /\ Len(walks) < MaxNest
  /\ walks' = Append(walks, [first |-> 1, result |-> 1, last |-> Len(list) + 1, calling |-> FALSE])
  /\ UNCHANGED <<list, live, wanted, undefined>>

EmitEvent ==
  /\ May("emit") /\ Len(walks) < MaxNest
  /\ walks' = Append(walks, [first |-> 1, result |-> 1, last |-> Len(list), calling |-> FALSE])
  /\ UNCHANGED <<list, live, wanted, undefined>>

-----------------------------------------------------------------------------
(* std::remove_if and erase, in emit_event                                 *)

Visiting == Walking /\ ~Walk.calling /\ Walk.first <= Walk.last

\* lock() succeeds: on(event)
CallListener == /\ Visiting /\ list[Walk.first] \in live
                /\ Update([Walk EXCEPT !.calling = TRUE])
                /\ UNCHANGED <<list, live, wanted, undefined>>

\* lock() fails: the entry is to be removed
Skip == /\ Visiting /\ list[Walk.first] \notin live
        /\ Update([Walk EXCEPT !.first = @ + 1])
        /\ UNCHANGED <<list, live, wanted, undefined>>

\* A copy in the place of the move: the entry would be there twice for a while
ReturnedCopies ==
  /\ Walking /\ Walk.calling
  /\ list' = [list EXCEPT ![Walk.result] = list[Walk.first]]
  /\ Update([Walk EXCEPT !.calling = FALSE, !.first = @ + 1, !.result = @ + 1])
  /\ UNCHANGED <<live, wanted, undefined>>

\* An entry that is kept without result moving on is erased after all
ReturnedUncounted ==
  /\ Walking /\ Walk.calling
  /\ list' = IF Walk.result = Walk.first THEN list
             ELSE [list EXCEPT ![Walk.result] = list[Walk.first], ![Walk.first] = Empty]
  /\ Update([Walk EXCEPT !.calling = FALSE, !.first = @ + 1])
  /\ UNCHANGED <<live, wanted, undefined>>

\* The listener returns, and its entry moves up to the end of those kept
Returned ==
  /\ Walking /\ Walk.calling
  /\ list' = IF Walk.result = Walk.first THEN list
             ELSE [list EXCEPT ![Walk.result] = list[Walk.first], ![Walk.first] = Empty]
  /\ Update([Walk EXCEPT !.calling = FALSE, !.first = @ + 1, !.result = @ + 1])
  /\ UNCHANGED <<live, wanted, undefined>>

\* The listener throws, out of remove_if, and nothing is erased: the caller of
\* emit_event, which may be a listener of the next outer walk, catches or throws on.
ListenerThrows ==
  /\ Walking /\ Walk.calling
  /\ walks' = Front(walks)
  /\ UNCHANGED <<list, live, wanted, undefined>>

\* The walk without the erase, a common mistake with std::remove_if
EraseForgotten ==
  /\ Walking /\ ~Walk.calling /\ Walk.first > Walk.last
  /\ walks' = Front(walks)
  /\ UNCHANGED <<list, live, wanted, undefined>>

\* erase(result, end()).  C++ does not say whether end() is evaluated before or
\* after remove_if, to which a listener may have appended.
Erase ==
  /\ Walking /\ ~Walk.calling /\ Walk.first > Walk.last
  /\ \E end \in {Walk.last, Len(list)} :
       list' = SubSeq(list, 1, Walk.result - 1) \o SubSeq(list, end + 1, Len(list))
  /\ walks' = Front(walks)
  /\ undefined' = (walks' # <<>> /\ Len(list') < Len(list))
  /\ UNCHANGED <<live, wanted>>

EmitterNext == \/ \E l \in Listeners : AddListener(l) \/ RemoveListener(l) \/ Expire(l)
               \/ EmitEvent \/ CallListener \/ Skip \/ Returned \/ ListenerThrows \/ Erase

EmitterSpec == EmitterInit /\ [][EmitterNext]_emitter_vars

-----------------------------------------------------------------------------

\* Every variable holds a value of its type, and iterators point into the vector
EmitterTypeOK ==
  /\ list \in Seq(Listeners \cup {Empty})
  /\ live \subseteq Listeners /\ wanted \subseteq Listeners
  /\ walks \in Seq([first : Nat \ {0}, result : Nat \ {0}, last : Nat, calling : BOOLEAN])
  /\ undefined \in BOOLEAN
  /\ ~undefined => \A k \in DOMAIN walks :
       walks[k].result <= walks[k].first /\ walks[k].last <= Len(list)

\* An entry is there for each listener added and not removed, as long as it lives,
\* wherever walks are, and wherever exceptions have left them: the test
\* AddEventListener of tests/events_unittest.cc expects a listener that was added to
\* be called.
AddedStay == ~undefined => \A l \in wanted \cap live : Contains(list, l)

\* A walk that an exception leaves may leave entries behind that were moved from
\* (remove_if returns nothing to erase from).  They last no longer than to the next
\* emission that comes to its end.
LeavesNoTrace ==
  [][walks # <<>> /\ ~Walk.calling /\ walks' = <<>> => ~Contains(list', Empty)]_emitter_vars

\* The walk and its moves are invisible: what the listeners see is Notification.
Living(s) == Those(s, live)
Registered == Living(list)
Notice(w) ==
  [now |-> IF w.calling THEN list[w.first] ELSE Nobody,
   rest |-> Living(SubSeq(list, w.first + (IF w.calling THEN 1 ELSE 0), w.last))]
Telling == [k \in DOMAIN walks |-> Notice(walks[k])]
Promise == INSTANCE Notification WITH registered <- Registered, telling <- Telling
ImplementsNotification == Promise!Spec
=============================================================================
