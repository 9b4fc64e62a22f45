------------------------------- MODULE Tracer -------------------------------
(***************************************************************************)
(* ArchServices::run_trace: it follows the control flow of a piece of code *)
(* from the addresses in code_paths, tells a TraceSink of the blocks, and  *)
(* leaves in code_paths the addresses outside the piece that the flow goes *)
(* to.                                                                     *)
(*                                                                         *)
(* Instructions are of size one and do not overlap.  The disassembler is   *)
(* called so that it returns the next control-flow instruction, if any.    *)
(* The sink finds a block by any address in it, and does not find a block  *)
(* of no extent, as that of tests/tracer_unittest.cc.                      *)
(***************************************************************************)
EXTENDS Naturals, Sequences, SequencesExt, FiniteSetsExt, Selection

CONSTANTS Size,    \* the piece of code: addresses 1 to Size
          Outside  \* addresses elsewhere

Addresses == 1 .. Size
End == Size + 1  \* also an address outside

ASSUME TracerAssumption ==
  /\ Size \in Nat \ {0}
  /\ Outside \subseteq Nat \ Addresses /\ End \in Outside

VARIABLES
  code,        \* the instruction at each address
  entries,     \* what code_paths held at first
  code_paths,
  traceable,   \* the paths of this round still to trace
  offset,      \* ci.codeOffset of the path being traced, or NoPath
  blocks,      \* what the sink has: [from, to), as pairs
  done         \* run_trace has returned

vars == <<code, entries, code_paths, traceable, offset, blocks, done>>

NoPath == 0

\* Where the flow goes besides on to the next instruction: "ret" is also an
\* indirect jump, "plain" an indirect call, "branch" also a call
Instructions ==
  [kind : {"plain", "ret"}] \cup [kind : {"jump", "branch"}, to : Addresses \cup Outside]
Ends(i) == i.kind \in {"ret", "jump"}  \* FC_RET, FC_UNC_BRANCH
Goes(i) == IF i.kind \in {"jump", "branch"} THEN {i.to} ELSE {}

\* The piece may end within an instruction, after its prefix
Prefix == [kind |-> "prefix"]
Codes == LET whole == [Addresses -> Instructions]
         IN  whole \cup {[c EXCEPT ![Size] = Prefix] : c \in whole}

Init ==
  /\ code \in Codes
  /\ \E a \in Addresses : entries = {a} /\ code_paths = <<a>>
  /\ traceable = <<>> /\ offset = NoPath /\ blocks = {} /\ done = FALSE

-----------------------------------------------------------------------------
(* do_run_trace                                                            *)

\* A bound that lets the address after the piece in
RoundTooFar ==
  /\ ~done /\ offset = NoPath /\ traceable = <<>>
  /\ traceable' = Those(code_paths, Addresses \cup {End})
  /\ code_paths' = Those(code_paths, Outside \ {End})
  /\ done' = (traceable' = <<>>)
  /\ UNCHANGED <<code, entries, offset, blocks>>

Round ==
  /\ ~done /\ offset = NoPath /\ traceable = <<>>
  /\ traceable' = Those(code_paths, Addresses)
  /\ code_paths' = Those(code_paths, Outside)
  /\ done' = (traceable' = <<>>)
  /\ UNCHANGED <<code, entries, offset, blocks>>

StartPath ==
  /\ offset = NoPath /\ traceable # <<>>
  /\ offset' = Head(traceable) /\ traceable' = Tail(traceable)
  /\ UNCHANGED <<code, entries, code_paths, blocks, done>>

-----------------------------------------------------------------------------
(* trace_code_path, with the disassembler                                  *)

Found(a, bs) == \E b \in bs : b[1] <= a /\ a < b[2]

\* The instructions the decoder stops at
FlowFrom(a) == {p \in a .. Size : code[p].kind \notin {"plain", "prefix"}}

Tracing == offset # NoPath
AtFlow(p) == Tracing /\ offset <= Size /\ FlowFrom(offset) # {} /\ p = Min(FlowFrom(offset))

\* The position moves with new blocks only
PassOverStays == \E p \in Addresses :
  /\ AtFlow(p) /\ Found(p, blocks)
  /\ offset' = p
  /\ UNCHANGED <<code, entries, code_paths, traceable, blocks, done>>

\* A known instruction is passed over, whatever it does
PassOver == \E p \in Addresses :
  /\ AtFlow(p) /\ Found(p, blocks)
  /\ offset' = p + 1
  /\ UNCHANGED <<code, entries, code_paths, traceable, blocks, done>>

\* The check of trace_fc_block the wrong way round
TargetsKnown(p, bs) == {t \in Goes(code[p]) : Found(t, bs)}

\* trace_fc_block: the target to be traced, if any, given the blocks there are
Targets(p, bs) == {t \in Goes(code[p]) : ~Found(t, bs)}

\* The path ends at a branch as it does at a jump
TraceBlockEnds == \E p \in Addresses :
  /\ AtFlow(p) /\ ~Found(p, blocks)
  /\ blocks' = blocks \cup {<<offset, p + 1>>}
  /\ code_paths' = code_paths \o SetToSeq(Targets(p, blocks'))
  /\ offset' = NoPath
  /\ UNCHANGED <<code, entries, traceable, done>>

\* trace_block
TraceBlock == \E p \in Addresses :
  /\ AtFlow(p) /\ ~Found(p, blocks)
  /\ blocks' = blocks \cup {<<offset, p + 1>>}
  /\ code_paths' = code_paths \o SetToSeq(Targets(p, blocks'))
  /\ offset' = IF Ends(code[p]) THEN NoPath ELSE p + 1
  /\ UNCHANGED <<code, entries, traceable, done>>

\* No control flow up to the end.  A prefix at the end is not decoded, and the
\* next call starts at it again.
Rest == /\ Tracing /\ offset <= Size /\ FlowFrom(offset) = {}
        /\ offset' = IF code[Size] = Prefix THEN Size ELSE End
        /\ UNCHANGED <<code, entries, code_paths, traceable, blocks, done>>

\* Nothing is left for the client to go on with
PathEndsHere == /\ offset = End
                /\ offset' = NoPath
                /\ UNCHANGED <<code, entries, code_paths, traceable, blocks, done>>

\* The path goes on after the piece of code
PathEnds == /\ offset = End
            /\ code_paths' = Append(code_paths, End)
            /\ offset' = NoPath
            /\ UNCHANGED <<code, entries, traceable, blocks, done>>

Next == Round \/ StartPath \/ PassOver \/ TraceBlock \/ Rest \/ PathEnds

Spec == Init /\ [][Next]_vars

-----------------------------------------------------------------------------

\* Every variable holds a value of its type, and blocks lie in the piece of code
TypeOK ==
  /\ code \in Codes
  /\ entries \subseteq Addresses
  /\ code_paths \in Seq(Addresses \cup Outside) /\ traceable \in Seq(Addresses)
  /\ offset \in {NoPath} \cup 1 .. End
  /\ \A b \in blocks : b[1] \in Addresses /\ b[2] \in 2 .. End /\ b[1] < b[2]
  /\ done \in BOOLEAN

\* The reference: the addresses the flow can reach, in at most n steps
Flow(a) == IF a \in Addresses
           THEN Goes(code[a]) \cup (IF Ends(code[a]) THEN {} ELSE {a + 1})
           ELSE {}
Reach == LET reach[n \in 0 .. Size + 1] ==
               IF n = 0 THEN entries
               ELSE reach[n - 1] \cup UNION {Flow(a) : a \in reach[n - 1]}
         IN  reach[Size + 1]

\* run_trace misses no control flow: in the end every instruction that directs the
\* flow, and that the flow can reach from the first code paths, is in a block.
Complete == done => \A a \in Reach \cap Addresses :
                      code[a].kind # "plain" => Found(a, blocks)

\* The client can go on where run_trace stopped: in the end code_paths has every
\* address outside the piece that the flow can reach, and none inside.
Handover == done => /\ Reach \ Addresses \subseteq ToSet(code_paths)
                    /\ ToSet(code_paths) \cap Addresses = {}

-----------------------------------------------------------------------------
(* The inductive invariant *)

\* A block ends at the first instruction from its start on that directs the flow
Shaped(b) == FlowFrom(b[1]) # {} /\ b[2] = Min(FlowFrom(b[1])) + 1

\* run_trace has been from a on to where the flow may leave
Covered(a) ==
  /\ a \in Addresses
  /\ FlowFrom(a) # {} => Found(Min(FlowFrom(a)), blocks)
  /\ FlowFrom(a) = {} => IF code[Size] = Prefix THEN offset = Size
                         ELSE offset = End \/ End \in ToSet(code_paths)

\* a is not forgotten: it is being traced, kept for later, or covered
Kept(a) == \/ Tracing /\ a = offset
           \/ a \in ToSet(traceable) \cup ToSet(code_paths)
           \/ Covered(a)

TraceInv ==
  /\ \A b \in blocks : Shaped(b) /\ \A a \in Flow(b[2] - 1) : Kept(a)
  /\ \A a \in entries : Kept(a)
  /\ done => traceable = <<>> /\ offset = NoPath /\ ToSet(code_paths) \cap Addresses = {}
=============================================================================
