----------------------------- MODULE EntryTrace -----------------------------
(***************************************************************************)
(* Tracer on the code an ElfImage leads to: a client that lists the        *)
(* sections of the image, reads the one of the entry point and traces it,  *)
(* as tests/tracer_unittest.cc does.  It needs the image no more then.     *)
(***************************************************************************)
EXTENDS Tracer

CONSTANTS Images, Biases

VARIABLES image, bias, state, prf_base, visited, sections

Elf == INSTANCE ElfImage

ASSUME ImagesAssumption ==
  /\ \A im \in Images : Elf!WellFormed(im)
  /\ Biases \subseteq Int

elf == <<image, bias, state, prf_base, visited, sections>>

Unread == code = <<>>
Gone == [class |-> 64, entry |-> 0, phdrs |-> <<>>]

ClientInit ==
  /\ Elf!Init
  /\ code = <<>> /\ entries = {} /\ code_paths = <<>> /\ traceable = <<>>
  /\ offset = NoPath /\ blocks = {} /\ done = FALSE

UseImage == Unread /\ Elf!Next /\ UNCHANGED vars

\* The section of the entry point, whose addresses are from 1 on to the tracer
FindEntry ==
  /\ Unread /\ state = "listed"
  /\ \E k \in DOMAIN sections :
       LET s == sections[k]
           a == 1 + Elf!EntryPoint - s.vaddr
       IN /\ s.vsize = Size /\ a \in Addresses
          /\ entries' = {a} /\ code_paths' = <<a>>
  /\ image' = Gone /\ bias' = 0 /\ state' = "gone"
  /\ prf_base' = 0 /\ visited' = 0 /\ sections' = <<>>
  /\ UNCHANGED <<code, traceable, offset, blocks, done>>

\* Any code is there
ReadSection ==
  /\ Unread /\ state = "gone"
  /\ code' \in Codes
  /\ UNCHANGED <<elf, entries, code_paths, traceable, offset, blocks, done>>

Trace == ~Unread /\ Next /\ UNCHANGED elf

ClientNext == UseImage \/ FindEntry \/ ReadSection \/ Trace

\* run_trace runs to its end
ClientSpec == ClientInit /\ [][ClientNext]_<<vars, elf>> /\ WF_vars(Trace)

-----------------------------------------------------------------------------

\* Every variable of both holds a value of its type
ClientTypeOK == /\ state # "gone" => Elf!TypeOK
                /\ ~Unread => TypeOK

\* Inductive: the image up to FindEntry, run_trace from ReadSection on
ClientInv ==
  /\ Unread => traceable = <<>> /\ offset = NoPath /\ blocks = {} /\ done = FALSE
  /\ Unread /\ state # "gone" => Elf!ElfInv
  /\ Unread /\ state = "gone" => \E a \in Addresses : entries = {a} /\ code_paths = <<a>>
  /\ ~Unread => state = "gone" /\ TypeOK /\ TraceInv

\* What the image says, stated in ElfImage: where the program starts,
EntryAddress == Elf!EntryAddress

\* that this is in a section,
EntryListed == Elf!EntryListed

\* and where the sections are.
SectionsInPlace == Elf!SectionsInPlace

\* run_trace returns, as the test ArchServicesRunTrace of tests/tracer_unittest.cc
\* has it, unless the section ends within an instruction.
TraceEnds == ~Unread /\ code[Size] # Prefix ~> done
=============================================================================
