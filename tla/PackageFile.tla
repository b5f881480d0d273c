---------------------------- MODULE PackageFile -----------------------------
(***************************************************************************)
(* bpkg_load: which .bpkg files become packages.  A line is the label it   *)
(* has and, where that is a count, the count.  An "entry" is a line of a   *)
(* list of hashes or chunks.                                               *)
(***************************************************************************)
EXTENDS Integers, Sequences

Listed == [nhashes |-> "hashes", nchunks |-> "chunks"]
Valued == {"ident", "filename", "size", "nhashes", "nchunks", "other"}

\* The labels the loop over the lines finds, "malformed" where it gives up.  A
\* count takes the next line, which has to head the list, and as many lines
\* after it, whatever they are; outside lists a line has a label and a value.
Sections(lines) ==
  LET From[i \in 1 .. (Len(lines) + 1)] ==
        IF i > Len(lines) THEN {}
        ELSE LET line == lines[i] IN
          IF line.label \notin Valued THEN {"malformed"}
          ELSE IF line.label \notin DOMAIN Listed
          THEN {line.label} \cup From[i + 1]
          ELSE IF i + 1 + line.count > Len(lines) THEN {"malformed"}
          ELSE IF lines[i + 1].label # Listed[line.label] THEN {"malformed"}
          ELSE {line.label} \cup From[i + 2 + line.count]
  IN From[1]

\* Mutant: giving up at a malformed line is forgotten.
MutLoads(lines) == {"ident", "filename"} \subseteq Sections(lines)

\* A size is not asked for.
Loads(lines) ==
  /\ "malformed" \notin Sections(lines)
  /\ {"ident", "filename", "nhashes", "nchunks"} \subseteq Sections(lines)

\* What is meant: every list has its heading and exactly as many entries as its
\* count says, and nothing that has to be there is missing.
Whole(lines) ==
  /\ \A label \in {"ident", "filename", "nhashes", "nchunks"} :
       \E i \in DOMAIN lines : lines[i].label = label
  /\ \A i \in DOMAIN lines : lines[i].label \in DOMAIN Listed =>
       LET last == i + 1 + lines[i].count IN
         /\ last <= Len(lines) /\ lines[i + 1].label = Listed[lines[i].label]
         /\ \A j \in i + 2 .. last : lines[j].label = "entry"
         /\ last < Len(lines) => lines[last + 1].label # "entry"
=============================================================================
