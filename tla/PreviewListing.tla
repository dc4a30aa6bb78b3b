---------------------------- MODULE PreviewListing ----------------------------
(* What a preview tells of a file and what it leaves out (file-preview.js,    *)
(* archive-preview-security.js, seven-zip-parser-worker.js): the entries of a *)
(* ZIP as they are read, those of a 7z as the worker collects them and the    *)
(* main thread accepts them, and the cells of a worksheet.  Every budget can  *)
(* be reached anywhere; whatever is left out has to be reported.              *)
EXTENDS Naturals, FiniteSets, SequencesExt

CONSTANTS
  Listed,          \* what an archive may hold: see EntryType
  MaxRead,        \* bound on the entries of an archive and the rows of a worksheet
  MaxEntries,     \* ZIP_MAX_SCANNED_ENTRIES, maxScannedEntries
  MaxVisible,     \* ..._MAX_VISIBLE_ENTRIES
  MaxName,        \* ..._MAX_ENTRY_NAME_BYTES
  MaxNames,       \* ..._MAX_VISIBLE_NAME_BYTES
  MaxComponents,  \* ARCHIVE_PREVIEW_MAX_PATH_COMPONENTS
  MaxNodes,       \* ARCHIVE_PREVIEW_MAX_TREE_NODES
  MaxRows,        \* XLSX_MAX_ROWS
  MaxCell,        \* XLSX_MAX_CELL_TEXT_BYTES
  MaxText         \* XLSX_MAX_RESPONSE_TEXT_BYTES

\* safe: nothing in the name is refused.  locked: encrypted.  anti: an anti-file of 7z.
EntryType == [path : Seq(Nat), bytes : Nat, safe : BOOLEAN, locked : BOOLEAN, anti : BOOLEAN]

ASSUME ListingAssumption ==
  /\ Listed \subseteq EntryType /\ \A e \in Listed : e.path # <<>>
  /\ {MaxEntries, MaxVisible, MaxName, MaxNames, MaxComponents, MaxNodes, MaxRows} \subseteq
       Nat \ {0}
  /\ {MaxRead, MaxCell, MaxText} \subseteq Nat /\ MaxVisible <= MaxEntries

VARIABLES
  kind,     \* zip, 7z or xlsx
  read,     \* the entries of the archive so far; the text sizes of the rows
  shown,    \* the entries or sizes collected
  taken,    \* visibleNameBytes; what remainingTextBytes has lost
  nodes,    \* prefixes of createArchivePreviewTreeBudget
  omitted,  \* omittedEntries, omitted, truncatedContent
  listing   \* what the preview is answered with

listingVars == <<kind, read, shown, taken, nodes, omitted, listing>>

NoListing == [is |-> "none"]
Refused == [is |-> "error"]
Answered == listing # NoListing

ListingInit ==
  /\ kind \in {"zip", "7z", "xlsx"}
  /\ read = <<>> /\ shown = <<>> /\ taken = 0 /\ nodes = {} /\ omitted = FALSE /\ listing = NoListing

-----------------------------------------------------------------------------
(* Budgets                                                                    *)

\* The tree nodes of an entry: its path and every prefix of it.
Steps(e) == Prefixes(e.path) \ {<<>>}

\* normalizeArchivePreviewName
Normal(e) == e.safe /\ Len(e.path) <= MaxComponents

\* Deviation: what is reserved already does not count.
FewNodes(e) == Cardinality(Steps(e)) <= MaxNodes

\* reserve(components)
Reservable(e) == Cardinality(nodes \cup Steps(e)) <= MaxNodes

HasRoomFor(e) == Len(shown) < MaxVisible /\ taken + e.bytes <= MaxNames

\* One more entry for the list.
Show(e) == shown' = Append(shown, e) /\ taken' = taken + e.bytes
ShowNothing == UNCHANGED <<shown, taken>>

Locked == \E i \in DOMAIN read : read[i].locked

-----------------------------------------------------------------------------
(* buildZipPreview: one entry after the other; the first encrypted one ends   *)
(* the collecting, a limit ends the preview.                                  *)

Delivered(e) == ~Answered /\ Len(read) < MaxRead /\ read' = Append(read, e)

ZipCollect(e) ==
  IF Normal(e) /\ Reservable(e)
  THEN /\ nodes' = nodes \cup Steps(e)
       /\ IF HasRoomFor(e) THEN Show(e) ELSE ShowNothing
       /\ omitted' = (omitted \/ ~HasRoomFor(e))
  ELSE omitted' = TRUE /\ ShowNothing /\ UNCHANGED nodes

ZipEntry(e) ==
  /\ kind = "zip" /\ ~e.anti /\ Delivered(e)
  /\ IF Len(read) >= MaxEntries \/ e.bytes > MaxName
     THEN listing' = Refused /\ ShowNothing /\ UNCHANGED <<nodes, omitted>>
     ELSE /\ UNCHANGED listing
          /\ IF Locked \/ e.locked THEN ShowNothing /\ UNCHANGED <<nodes, omitted>>
             ELSE ZipCollect(e)
  /\ UNCHANGED kind

Protected(total) ==
  [is |-> "listing", entries |-> <<>>, protected |-> TRUE, total |-> total,
   exact |-> FALSE, truncated |-> FALSE]

Listing(total, exact, truncated) ==
  [is |-> "listing", entries |-> shown, protected |-> FALSE, total |-> total,
   exact |-> exact, truncated |-> truncated]

ZipEnd ==
  /\ kind = "zip" /\ ~Answered
  /\ listing' = IF Locked THEN Protected(Len(read))
                ELSE Listing(Len(read), TRUE, omitted \/ Len(read) > Len(shown))
  /\ ShowNothing /\ UNCHANGED <<kind, read, nodes, omitted>>

\* The reader fails: on a protected archive, or on one that is damaged.
ZipError ==
  /\ kind = "zip" /\ ~Answered
  /\ listing' \in {Protected(Len(read))} \cup (IF Locked THEN {} ELSE {Refused})
  /\ ShowNothing /\ UNCHANGED <<kind, read, nodes, omitted>>

-----------------------------------------------------------------------------
(* 7z: the worker knows all entries before it looks at the first one, and     *)
(* looks at MaxEntries of them at most (parseArchive).                        *)

SevenEntry(e) ==
  /\ kind = "7z" /\ Delivered(e)
  /\ IF Len(read) < MaxEntries /\ ~e.anti /\ e.safe /\ e.bytes <= MaxName /\ HasRoomFor(e)
     THEN Show(e) /\ UNCHANGED omitted
     ELSE omitted' = TRUE /\ ShowNothing
  /\ UNCHANGED <<kind, nodes, listing>>

Scanned7z == IF Len(read) < MaxEntries THEN Len(read) ELSE MaxEntries
Counted == Cardinality({i \in 1..Scanned7z : ~read[i].anti})

\* validateSevenZipWorkerPreview: one name too deep or one node too many refuses all.
Valid ==
  /\ \A i \in DOMAIN shown : Normal(shown[i])
  /\ Cardinality(UNION {Steps(shown[i]) : i \in DOMAIN shown}) <= MaxNodes

SevenEnd ==
  /\ kind = "7z" /\ ~Answered
  /\ listing' = IF Locked THEN Protected(0)
                ELSE IF Valid
                THEN Listing(Counted, Len(read) <= MaxEntries, omitted \/ Len(shown) < Counted)
                ELSE Refused
  /\ ShowNothing /\ UNCHANGED <<kind, read, nodes, omitted>>

-----------------------------------------------------------------------------
(* buildXlsxPreview: one cell per row, its text in characters of two bytes.   *)
(* read is the worksheet, 0 an empty row.                                     *)

Cut(size, max) == IF size <= max THEN size ELSE 2 * (max \div 2)

\* actualRowCount counts the rows that hold something.
ActualRows == Cardinality({n \in DOMAIN read : read[n] > 0})
VisibleRows == LET total == IF ActualRows = 0 THEN 1 ELSE ActualRows
               IN  IF total < MaxRows THEN total ELSE MaxRows

\* inspectZipLimits: as an archive the file is damaged or too large.
RefuseSheet ==
  /\ kind = "xlsx" /\ read = <<>> /\ ~Answered
  /\ listing' = Refused
  /\ ShowNothing /\ UNCHANGED <<kind, read, nodes, omitted>>

LoadSheet ==
  /\ kind = "xlsx" /\ read = <<>> /\ ~Answered
  /\ read' \in BoundedSeq({0, 2, MaxCell + 2}, MaxRead) \ {<<>>}
  /\ ShowNothing /\ UNCHANGED <<kind, nodes, omitted, listing>>

ReadRow ==
  /\ kind = "xlsx" /\ read # <<>> /\ ~Answered
  /\ Len(shown) < VisibleRows
  /\ LET size == IF Len(shown) < Len(read) THEN read[Len(shown) + 1] ELSE 0
         cell == Cut(size, MaxCell)
         fits == Cut(cell, MaxText - taken)
     IN  /\ shown' = Append(shown, fits) /\ taken' = taken + fits
         /\ omitted' = (omitted \/ cell < size \/ fits < cell)
  /\ UNCHANGED <<kind, read, nodes, listing>>

SheetEnd ==
  /\ kind = "xlsx" /\ read # <<>> /\ ~Answered
  /\ Len(shown) = VisibleRows
  /\ listing' = [is |-> "sheet", content |-> omitted, rows |-> ActualRows > VisibleRows]
  /\ ShowNothing /\ UNCHANGED <<kind, read, nodes, omitted>>

-----------------------------------------------------------------------------
ListingNext ==
  \/ \E e \in Listed : ZipEntry(e) \/ SevenEntry(e)
  \/ ZipEnd \/ ZipError \/ SevenEnd
  \/ RefuseSheet \/ LoadSheet \/ ReadRow \/ SheetEnd

\* The sizes add up to no more than max: there are partial sums that say so.
AddUpTo(sizes, n) ==
  \E sum \in [0..Len(sizes) -> 0..n] :
    /\ sum[0] = 0 /\ sum[Len(sizes)] = n
    /\ \A i \in 1..Len(sizes) : sum[i] = sum[i - 1] + sizes[i]
SumWithin(sizes, max) == \E n \in 0..max : AddUpTo(sizes, n)
Sizes(entries) == [i \in DOMAIN entries |-> entries[i].bytes]

\* A list stays within every budget, a protected archive shows no name of those read
\* before the protected one, and a list that claims to be whole, or a total that claims
\* to be exact, leaves nothing out.
ArchiveIsHonest ==
  listing.is = "listing" =>
    /\ Len(listing.entries) <= MaxVisible /\ SumWithin(Sizes(listing.entries), MaxNames)
    /\ Cardinality(UNION {Steps(listing.entries[i]) : i \in DOMAIN listing.entries}) <= MaxNodes
    /\ Locked => listing.entries = <<>> /\ listing.protected
    /\ ~listing.protected /\ ~listing.truncated => listing.entries = read
    /\ listing.exact => listing.total = Cardinality({i \in DOMAIN read : ~read[i].anti})

\* The text of a worksheet stays within its budget, and what a preview does not show is
\* reported, unless a worksheet has an empty row above one that is not.
SheetIsHonest ==
  listing.is = "sheet" =>
    /\ SumWithin(shown, MaxText)
    /\ ~listing.content => \A n \in DOMAIN shown \cap DOMAIN read : shown[n] = read[n]
    /\ ~listing.rows /\ (\A n \in 1..ActualRows : read[n] > 0) =>
         \A n \in DOMAIN read : read[n] > 0 => n \in DOMAIN shown

\* Previews tell what they leave out (file-preview.js:296-325, 399-436, 505-526,
\* seven-zip-parser-worker.js:586-642; docs/LARGE_7Z_PREVIEW_FIX_2026-07-22.md:86).
ListingIsHonest == ArchiveIsHonest /\ SheetIsHonest
=============================================================================
