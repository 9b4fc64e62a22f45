-------------------------------- MODULE Forks --------------------------------
(***************************************************************************)
(* What LocalDebuggee does about the processes its target forks:           *)
(* on_process_created, which tells the listeners and detaches the child    *)
(* unless one of them has called attach_child meanwhile, by way of         *)
(* new_child_ and child_detach_.                                           *)
(*                                                                         *)
(* The kernel has attached the child already; it runs up to its first      *)
(* stop on its own.  A listener may resume the parent, so that events are  *)
(* dispatched inside the notification of another.                          *)
(***************************************************************************)
EXTENDS Naturals, Sequences, SequencesExt

CONSTANTS Kids,      \* the processes forked
          MaxDepth   \* bound: fork events dispatched inside one another

NoChild == "0"

ASSUME ForksAssumption == MaxDepth \in Nat /\ NoChild \notin Kids

VARIABLES
  kid,           \* kid[c]: "none", "born", "stop" (traced, at its first stop),
                 \* "free" (detached) or "dead"
  events,        \* forks the debugger has not been told of yet
  new_child,     \* new_child_
  child_detach,  \* child_detach_
  frames,        \* the children of on_process_created calls, innermost last
  owned,         \* the children some LocalDebuggee was made for
  thrown,        \* an exception has left a dispatch
  own,           \* history: the children attached while they were told of
  inner          \* history: what befell another child last while c was told of,
                 \* inner[c]: "none", "told" or "attached"

history == <<own, inner>>
forks_vars == <<kid, events, new_child, child_detach, frames, owned, thrown, history>>

\* The constructor sets neither new_child_ nor child_detach_
ForksInit ==
  /\ kid = [c \in Kids |-> "none"] /\ events = {}
  /\ new_child \in Kids \cup {NoChild} /\ child_detach \in BOOLEAN
  /\ frames = <<>> /\ owned = {} /\ thrown = FALSE
  /\ own = {} /\ inner = [c \in Kids |-> "none"]

Traced(c) == kid[c] \in {"born", "stop"}

\* The children that listeners are being told of
Told == {frames[i] : i \in DOMAIN frames}

Within(cs, what) == inner' = [c \in Kids |-> IF c \in cs THEN what ELSE inner[c]]

-----------------------------------------------------------------------------
(* The kernel                                                              *)

Fork(c) == /\ kid[c] = "none"
           /\ kid' = [kid EXCEPT ![c] = "born"]
           /\ events' = events \cup {c}

FirstStop(c) == kid[c] = "born" /\ kid' = [kid EXCEPT ![c] = "stop"] /\ UNCHANGED events

Die(c) == kid[c] \notin {"none", "dead"} /\ kid' = [kid EXCEPT ![c] = "dead"]
          /\ UNCHANGED events

Kernel == /\ \E c \in Kids : Fork(c) \/ FirstStop(c) \/ Die(c)
          /\ UNCHANGED <<new_child, child_detach, frames, owned, thrown, history>>

-----------------------------------------------------------------------------
(* The debugger                                                            *)

\* What leaves a dispatch by an exception leaves all of them
Throw == thrown' = TRUE /\ frames' = <<>>

\* A dispatch that does not renew child_detach_
DispatchKeepsDetach(c) ==
  /\ c \in events /\ Len(frames) < MaxDepth
  /\ events' = events \ {c}
  /\ \/ /\ new_child' = c
        /\ frames' = Append(frames, c) /\ UNCHANGED thrown
        /\ Within(Told, "told")
     \/ /\ new_child' = NoChild /\ Throw /\ UNCHANGED inner
  /\ UNCHANGED <<kid, child_detach, owned, own>>

\* dispatch_event of a fork: PTRACE_GETEVENTMSG, which fails if the parent was
\* killed meanwhile, and on_process_created up to the notification
DispatchFork(c) ==
  /\ c \in events /\ Len(frames) < MaxDepth
  /\ events' = events \ {c}
  /\ \/ /\ new_child' = c /\ child_detach' = TRUE
        /\ frames' = Append(frames, c) /\ UNCHANGED thrown
        /\ Within(Told, "told")
     \/ /\ new_child' = NoChild /\ Throw /\ UNCHANGED <<child_detach, inner>>
  /\ UNCHANGED <<kid, owned, own>>

\* dispatch_event of anything else
DispatchOther ==
  /\ new_child' = NoChild
  /\ UNCHANGED <<kid, events, child_detach, frames, owned, thrown, history>>

ListenerThrows == /\ frames # <<>> /\ Throw
                  /\ UNCHANGED <<kid, events, new_child, child_detach, owned, history>>

\* An attach_child that leaves the detach to on_process_created
AttachKeepsDetach(c) ==
  /\ c = new_child /\ kid[c] # "none"
  /\ owned' = owned \cup {c}
  /\ new_child' = NoChild
  /\ own' = own \cup ({c} \cap Told)
  /\ Within(Told \ {c}, "attached")
  /\ UNCHANGED <<kid, events, child_detach, frames, thrown>>

\* do_attach_child, called by a listener or at any other time.  Any other pid is
\* refused, and changes nothing; nor does a call that cannot make the debuggee.
AttachChild(c) ==
  /\ c = new_child /\ kid[c] # "none"
  /\ owned' = owned \cup {c}
  /\ child_detach' = FALSE
  /\ new_child' = NoChild
  /\ own' = own \cup ({c} \cap Told)
  /\ Within(Told \ {c}, "attached")
  /\ UNCHANGED <<kid, events, frames, thrown>>

\* The rest of on_process_created: PTRACE_DETACH wants a child that has stopped
Notified ==
  /\ frames # <<>>
  /\ LET c == Last(frames) IN
     \/ /\ child_detach /\ kid[c] = "stop"
        /\ kid' = [kid EXCEPT ![c] = "free"]
        /\ frames' = Front(frames) /\ UNCHANGED thrown
     \/ /\ child_detach /\ kid[c] # "stop"
        /\ Throw /\ UNCHANGED kid
     \/ /\ ~child_detach
        /\ frames' = Front(frames) /\ UNCHANGED <<kid, thrown>>
  /\ UNCHANGED <<events, new_child, child_detach, owned, history>>

Debugger == \/ \E c \in Kids : DispatchFork(c) \/ AttachChild(c)
            \/ DispatchOther \/ ListenerThrows \/ Notified

ForksNext == Kernel \/ Debugger

ForksSpec == ForksInit /\ [][ForksNext]_forks_vars

-----------------------------------------------------------------------------

\* Every variable holds a value of its type
ForksTypeOK ==
  /\ kid \in [Kids -> {"none", "born", "stop", "free", "dead"}]
  /\ events \subseteq Kids
  /\ new_child \in Kids \cup {NoChild} /\ child_detach \in BOOLEAN
  /\ frames \in Seq(Kids) /\ owned \subseteq Kids /\ thrown \in BOOLEAN
  /\ own \subseteq Kids /\ inner \in [Kids -> {"none", "told", "attached"}]

\* A child that is attached while listeners are being told of it is not detached,
\* then or later, unless another fork event is dispatched inside that notification
\* and nobody attaches to its child: child_detach_ speaks of the last child told
\* of (debuggee.cc:235-240), whatever child the detach is for.
OwnTraced == \A c \in own : Traced(c) \/ kid[c] = "dead" \/ inner[c] = "told"

\* Once no dispatch is open, each child told of has a debuggee or runs free, and
\* none is left stopped for good, unless something threw or the last thing done
\* inside its notification was to attach to another child.
NoneForgotten ==
  frames = <<>> /\ ~thrown =>
    \A c \in Kids : Traced(c) => c \in events \cup owned \/ inner[c] = "attached"

\* The inductive invariant behind both: child_detach_ is right for a child being
\* told of as long as it was the last one that anything was done about.
DetachFor ==
  \A c \in Told :
    /\ kid[c] \notin {"none", "free"} /\ c \notin events
    /\ child_detach <=> inner[c] = "told" \/ (inner[c] = "none" /\ c \notin own)
    /\ c = new_child => inner[c] = "none" /\ c \notin own

ForksInv ==
  /\ ForksTypeOK /\ OwnTraced /\ DetachFor
  /\ \A i, j \in DOMAIN frames : frames[i] = frames[j] => i = j
  /\ own \subseteq owned
  /\ \A c \in Kids : kid[c] = "none" \/ c \in events => c \notin own /\ inner[c] = "none"
  /\ \A c \in events : kid[c] \notin {"none", "free"}
  /\ ~thrown => \A c \in Kids \ Told :
       Traced(c) => c \in events \cup owned \/ inner[c] = "attached"
=============================================================================
