------------------------------ MODULE ElfImage ------------------------------
(***************************************************************************)
(* binfmt_from_image and Elf_Image: the image of a process, read from the  *)
(* ELF header and the program headers found at its lowest mapping, its     *)
(* preferred base, entry point and sections.                               *)
(*                                                                         *)
(* Both classes have the same fields.                                      *)
(***************************************************************************)
EXTENDS Integers, Sequences, SequencesExt, FiniteSetsExt

CONSTANTS Images, \* the files that may be loaded
          Biases  \* where the kernel may load them, relative to their addresses

MaxAddr == 1000000  \* numeric_limits<uintptr_t>::max(), above all addresses

VARIABLES
  image,   \* the file: [class, entry, phdrs], phdrs of [type, flags, vaddr, memsz]
  bias,
  state,   \* "new", "magic", "header", "ready", "listing", "listed", "null", or
           \* "thrown"
  prf_base,
  visited, \* program headers visit_phdrs has been through
  sections

vars == <<image, bias, state, prf_base, visited, sections>>

Loads(im) == {k \in DOMAIN im.phdrs : im.phdrs[k].type = "LOAD"}
Lowest(im) == Min({im.phdrs[k].vaddr : k \in Loads(im)})

\* A program header, and a file with its entry point in a segment that can be read
\* and executed, and not at its beginning
Phdrs == [type : STRING, flags : SUBSET {"R", "W", "X"},
          vaddr : 0 .. MaxAddr - 1, memsz : Nat]
WellFormed(im) ==
  /\ im.phdrs \in Seq(Phdrs) /\ im.entry \in Nat
  /\ \E k \in Loads(im) : LET phdr == im.phdrs[k] IN
       /\ {"R", "X"} \subseteq phdr.flags
       /\ phdr.vaddr < im.entry /\ im.entry <= phdr.vaddr + phdr.memsz

Init == /\ image \in Images /\ bias \in Biases
        /\ state = "new" /\ prf_base = MaxAddr /\ visited = 0 /\ sections = <<>>

\* elf_check_image, at the lowest mapping, where something else may lie
CheckMagic == /\ state = "new"
              /\ state' \in {"magic", "thrown"}
              /\ UNCHANGED <<image, bias, prf_base, visited, sections>>

\* make_elf_image and the header, by le_load
ReadHeader == /\ state = "magic" /\ image.class \in {32, 64}
              /\ state' = "header" /\ visited' = 0 /\ prf_base' = MaxAddr
              /\ UNCHANGED <<image, bias, sections>>

\* make_elf_image knows two classes
NoImage == /\ state = "magic" /\ image.class \notin {32, 64}
           /\ state' = "null"
           /\ UNCHANGED <<image, bias, prf_base, visited, sections>>

\* read_mem throws: of the header, or of the program headers, out of the construction
\* or of sections
ReadFails == /\ \/ state = "magic" /\ state' = "thrown"
                \/ state = "header" /\ visited = 0 /\ state' = "thrown"
                \/ state = "listing" /\ visited = 0 /\ state' = "ready"
             /\ UNCHANGED <<image, bias, prf_base, visited, sections>>

Phdr == image.phdrs[visited + 1]
Visiting == visited < Len(image.phdrs)
Visited == visited' = visited + 1

\* p_flags & PT_LOAD.  PT_LOAD is 1, which among the flags is PF_X.
Selected(phdr) == "X" \in phdr.flags

\* The last base instead of the lowest
VisitForBaseLast == /\ state = "header" /\ Visiting
                    /\ prf_base' = IF Selected(Phdr) THEN Phdr.vaddr ELSE prf_base
                    /\ Visited
                    /\ UNCHANGED <<image, bias, state, sections>>

\* get_base_address
VisitForBase == /\ state = "header" /\ Visiting
                /\ prf_base' = IF Selected(Phdr) /\ Phdr.vaddr < prf_base
                               THEN Phdr.vaddr ELSE prf_base
                /\ Visited
                /\ UNCHANGED <<image, bias, state, sections>>

BaseFound == /\ state = "header" /\ ~Visiting
             /\ state' = "ready"
             /\ UNCHANGED <<image, bias, prf_base, visited, sections>>

EntryPoint == image.entry - prf_base
ImageBase == bias + Lowest(image)

\* sections, which may be called any number of times
ListSections == /\ state \in {"ready", "listed"}
                /\ state' = "listing" /\ sections' = <<>> /\ visited' = 0
                /\ UNCHANGED <<image, bias, prf_base>>

\* Addresses as they are in the file
VisitForSectionsAbsolute ==
  /\ state = "listing" /\ Visiting
  /\ sections' = IF Selected(Phdr)
                 THEN Append(sections, [flags |-> Phdr.flags, vaddr |-> Phdr.vaddr,
                                        vsize |-> Phdr.memsz])
                 ELSE sections
  /\ Visited
  /\ UNCHANGED <<image, bias, state, prf_base>>

VisitForSections ==
  /\ state = "listing" /\ Visiting
  /\ sections' = IF Selected(Phdr)
                 THEN Append(sections, [flags |-> Phdr.flags, vaddr |-> Phdr.vaddr - prf_base,
                                        vsize |-> Phdr.memsz])
                 ELSE sections
  /\ Visited
  /\ UNCHANGED <<image, bias, state, prf_base>>

SectionsListed == /\ state = "listing" /\ ~Visiting
                  /\ state' = "listed"
                  /\ UNCHANGED <<image, bias, prf_base, visited, sections>>

Next == \/ CheckMagic \/ ReadHeader \/ NoImage \/ ReadFails \/ VisitForBase \/ BaseFound
        \/ ListSections \/ VisitForSections \/ SectionsListed

Spec == Init /\ [][Next]_vars

-----------------------------------------------------------------------------

\* Every variable holds a value of its type
TypeOK ==
  /\ state \in {"new", "thrown", "null", "magic", "header", "ready", "listing", "listed"}
  /\ prf_base \in 0 .. MaxAddr
  /\ visited \in 0 .. Len(image.phdrs) /\ Len(sections) <= visited
  /\ sections \in Seq([flags : SUBSET {"R", "W", "X"}, vaddr : Int, vsize : Nat])

Ready == state \in {"ready", "listing", "listed"}

\* The segment with the headers and the text is the first, as linkers made it before
\* they had -z separate-code, and nothing else is executable, the stack included.
Classic ==
  \A k \in DOMAIN image.phdrs :
    LET phdr == image.phdrs[k] IN
      /\ phdr.type = "LOAD" /\ phdr.vaddr = Lowest(image) => "X" \in phdr.flags
      /\ phdr.type # "LOAD" => "X" \notin phdr.flags

\* image_base() + entry_point() is where the program starts, as the tests compute it
\* (tests/tracer_unittest.cc:89-90); get_base_address is right for classic files.
EntryAddress == Ready /\ Classic => ImageBase + EntryPoint = bias + image.entry

\* The entry point lies within a section that can be read and executed, as the test
\* EnumSections of tests/binfmt_img_unittest.cc asks.
EntryListed ==
  state = "listed" => \E k \in DOMAIN sections :
    LET s == sections[k] IN
      {"R", "X"} \subseteq s.flags /\ s.vaddr < EntryPoint /\ EntryPoint <= s.vaddr + s.vsize

Place(sect) == <<ImageBase + sect.vaddr, sect.vsize>>
LoadPlaces == {<<bias + image.phdrs[k].vaddr, image.phdrs[k].memsz>> : k \in Loads(image)}

\* image_base() + vaddr is where a section of a classic file is in the process, as the
\* tests that read one from memory have it (tests/tracer_unittest.cc:94-105).
SectionsInPlace ==
  state = "listed" /\ Classic => \A k \in DOMAIN sections : Place(sections[k]) \in LoadPlaces

-----------------------------------------------------------------------------
(* The inductive invariant, after the first n program headers *)

SelectedOf(n) == {k \in 1 .. n : Selected(image.phdrs[k])}

\* prf_base is the lowest address that visit_phdrs has met
BaseOf(n) ==
  /\ \A k \in SelectedOf(n) : prf_base <= image.phdrs[k].vaddr
  /\ prf_base # MaxAddr => \E k \in SelectedOf(n) : prf_base = image.phdrs[k].vaddr

\* sections has what visit_phdrs has met, and nothing else
SectionOf(k) == LET phdr == image.phdrs[k]
                IN  [flags |-> phdr.flags, vaddr |-> phdr.vaddr - prf_base, vsize |-> phdr.memsz]
SectionsOf(n) == ToSet(sections) = {SectionOf(k) : k \in SelectedOf(n)}

ElfInv ==
  /\ WellFormed(image) /\ bias \in Int
  /\ TypeOK
  /\ ~Ready => sections = <<>>
  /\ state = "header" => BaseOf(visited)
  /\ Ready => BaseOf(Len(image.phdrs))
  /\ state = "listing" => SectionsOf(visited)
  /\ state = "listed" => SectionsOf(Len(image.phdrs))
=============================================================================
