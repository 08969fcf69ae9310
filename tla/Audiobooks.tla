------------------------------ MODULE Audiobooks ------------------------------
(***************************************************************************)
(* The rows of an audiobook: the scan of its folder                        *)
(* (scanner/audiobook_scanner.go), the requests that rescan, edit and      *)
(* purge it (server/nativeapi/audiobook.go), and the progress of a         *)
(* listener, all over persistence/audiobook_repository.go.                 *)
(*                                                                         *)
(* No operation is a transaction: a step is one statement, and the         *)
(* operations interleave.  Bookmarks hold on to chapters as progress does, *)
(* and are left out; so are titles, sizes and durations.                   *)
(***************************************************************************)
EXTENDS Naturals, FiniteSets, FiniteSetsExt

CONSTANTS
    Files,          \* names of audio files in the folder
    MaxBooks,       \* bound: rows ever created for the folder
    MaxChapters,    \* bound: ids of chapters
    MaxRuns,        \* bound: operations ever begun
    MaxChanges,     \* bound: changes of the folder
    MaxFaults       \* bound: statements that fail, and crashes

\* what the constants satisfy
AudiobooksAssumption ==
    /\ {MaxBooks, MaxChapters, MaxRuns, MaxChanges, MaxFaults} \subseteq Nat
    /\ IsFiniteSet(Files)

VARIABLES
    there, files,     \* does the folder exist, and its audio files
    books,            \* chapter_count of the books that have a row
    chapters,         \* rows of audiobook_chapter
    progress,         \* the chapter a listener is at, by book; 0 for none
    created,          \* ids of books handed out
    begun, changes, faults,
    scan, rescan, edit, purge,     \* the operations that run
    \* history: has an operation overlapped another, or a statement of one failed; the
    \* books that were removed; those whose progress was saved with a chapter of another
    disturbed, purged, strayed

rows == <<books, chapters, progress, created>>
outside == <<there, files, begun, changes>>
history == <<disturbed, purged, strayed>>
vars == <<there, files, rows, begun, changes, faults, scan, rescan, edit, purge, history>>

Ids     == 1..MaxBooks
Idle    == [at |-> "idle", book |-> 0, left |-> {}, count |-> 0]
Plan    == [file : Files, id : 0..MaxChapters]

\* a running operation: where it is, its book, what it has still to write, and a count
Operation == [at : {"idle", "clear", "fill", "put", "refs", "chapters", "book"},
              book : 0..MaxBooks, left : SUBSET Plan, count : Nat]

Init ==
    /\ there \in BOOLEAN /\ files \in SUBSET Files /\ (files # {} => there)
    /\ books = [b \in {} |-> 0] /\ chapters = {}
    /\ progress = [b \in Ids |-> 0]
    /\ created = 0 /\ begun = 0 /\ changes = 0 /\ faults = 0
    /\ scan = Idle /\ rescan = Idle /\ edit = Idle /\ purge = Idle
    /\ disturbed = FALSE /\ purged = {} /\ strayed = {}

-----------------------------------------------------------------------------
(* The tables *)

Of(b) == {c \in chapters : c.book = b}

\* a chapter that progress refers to cannot be deleted: the foreign key has no cascade
Referred(b) == \E c \in Of(b), u \in Ids : progress[u] = c.id

\* MUTANT of Deletable: the foreign keys are off
MutDeletable(b) == TRUE

Deletable(b) == ~Referred(b)

\* a book's row written whole: one that is gone is inserted again
Put(b, n) == books' = [x \in DOMAIN books \cup {b} |-> IF x = b THEN n ELSE books[x]]

\* PutChapter writes a chapter, new or known, and counts those of its book
FreshIds ==
    LET unused == (1..MaxChapters) \ {x.id : x \in chapters \cup rescan.left}
    IN  IF unused = {} THEN {} ELSE {Min(unused)}

PutChapter(b, file, id) ==
    /\ b \in DOMAIN books
    /\ chapters' = {c \in chapters : c.id # id} \cup {[id |-> id, book |-> b, file |-> file]}
    /\ Put(b, Cardinality({c \in chapters' : c.book = b}))

Fault == faults < MaxFaults /\ faults' = faults + 1

\* an operation that begins while another runs, or after a failure, disturbs
Begin(others, failed) ==
    /\ begun < MaxRuns /\ begun' = begun + 1
    /\ disturbed' = (disturbed \/ failed \/ \E op \in others : op.at # "idle")

-----------------------------------------------------------------------------
(* The folder and the listener *)

Change ==
    /\ changes < MaxChanges /\ changes' = changes + 1
    /\ \E exists \in BOOLEAN, now \in SUBSET Files :
          /\ ~exists => now = {}
          /\ there' = exists /\ files' = now
          /\ <<there', files'>> # <<there, files>>
    /\ UNCHANGED <<rows, begun, faults, scan, rescan, edit, purge, history>>

\* the chapter is the one the request names: it has to exist, in whatever book
SaveProgress(b, c) ==
    /\ b \in DOMAIN books
    /\ progress' = [progress EXCEPT ![b] = c.id]
    /\ strayed' = IF c.book = b THEN strayed \ {b} ELSE strayed \cup {b}
    /\ UNCHANGED <<outside, books, chapters, created, faults, scan, rescan, edit, purge, disturbed,
                   purged>>

-----------------------------------------------------------------------------
(* The scan: a folder with audio files and no row gets one, and so does one whose row
   could not be looked up; a row that counts no chapters has them read again *)

ScanNew ==
    /\ scan.at = "idle"
    /\ files # {} /\ created < MaxBooks
    /\ IF DOMAIN books = {} THEN UNCHANGED faults ELSE Fault
    /\ created' = created + 1
    /\ Put(created', 0)
    /\ scan' = [Idle EXCEPT !.at = "clear", !.book = created']
    /\ Begin({rescan, edit, purge}, DOMAIN books # {})
    /\ UNCHANGED <<there, files, chapters, progress, changes, rescan, edit, purge, purged, strayed>>

\* of two rows, the younger one is found
ScanKnown(b) ==
    /\ scan.at = "idle"
    /\ files # {} /\ b \in DOMAIN books /\ books[b] = 0 /\ \A d \in DOMAIN books : d <= b
    /\ scan' = [Idle EXCEPT !.at = "clear", !.book = b]
    /\ Begin({rescan, edit, purge}, FALSE)
    /\ UNCHANGED <<there, files, rows, changes, faults, rescan, edit, purge, purged, strayed>>

\* scanChapters deletes the chapters, whether or not it may, and lists the folder again
ScanClear ==
    /\ scan.at = "clear"
    /\ chapters' = IF Deletable(scan.book) THEN chapters \ Of(scan.book) ELSE chapters
    /\ scan' = [scan EXCEPT !.at = "fill", !.left = {[file |-> f, id |-> 0] : f \in files}]
    /\ UNCHANGED <<outside, books, progress, created, faults, rescan, edit, purge, history>>

\* a chapter that cannot be written is passed over
ScanFill(p) ==
    /\ scan.at = "fill" /\ p \in scan.left
    /\ \/ /\ \E id \in FreshIds : PutChapter(scan.book, p.file, id)
          /\ scan' = [scan EXCEPT !.left = @ \ {p}, !.count = @ + 1]
          /\ UNCHANGED <<faults, disturbed>>
       \/ /\ Fault \/ (scan.book \notin DOMAIN books /\ UNCHANGED faults)
          /\ scan' = [scan EXCEPT !.left = @ \ {p}]
          /\ disturbed' = TRUE
          /\ UNCHANGED <<books, chapters>>
    /\ UNCHANGED <<outside, progress, created, rescan, edit, purge, purged, strayed>>

ScanPut ==
    /\ scan.at = "fill" /\ scan.left = {}
    /\ \/ Put(scan.book, scan.count) /\ UNCHANGED <<faults, disturbed>>
       \/ Fault /\ disturbed' = TRUE /\ UNCHANGED books
    /\ scan' = Idle
    /\ UNCHANGED <<outside, chapters, progress, created, rescan, edit, purge, purged, strayed>>

-----------------------------------------------------------------------------
(* The rescan of a book: its list is made before anything is written *)

\* the id of the chapter a file had, if it had one
Kept(b, f) ==
    LET same == {c \in Of(b) : c.file = f} IN IF same = {} THEN 0 ELSE Max({c.id : c \in same})

RescanBuild(b) ==
    /\ rescan.at = "idle"
    /\ b \in DOMAIN books /\ files # {}
    /\ rescan' = [at |-> "clear", book |-> b, count |-> Cardinality(files),
                  left |-> {[file |-> f, id |-> Kept(b, f)] : f \in files}]
    /\ Begin({scan, edit, purge}, FALSE)
    /\ UNCHANGED <<there, files, rows, changes, faults, scan, edit, purge, purged, strayed>>

\* MUTANT of RescanClear: the error is ignored, as in scanChapters
MutRescanClear ==
    /\ rescan.at = "clear"
    /\ chapters' = IF Deletable(rescan.book) THEN chapters \ Of(rescan.book) ELSE chapters
    /\ rescan' = [rescan EXCEPT !.at = "fill", !.left = {[p EXCEPT !.id = 0] : p \in @}]
    /\ UNCHANGED <<outside, books, progress, created, faults, scan, edit, purge, history>>

\* a chapter that is referred to fails the request
RescanClear ==
    /\ rescan.at = "clear"
    /\ IF Deletable(rescan.book)
       THEN chapters' = chapters \ Of(rescan.book) /\ rescan' = [rescan EXCEPT !.at = "fill"]
       ELSE chapters' = chapters /\ rescan' = Idle
    /\ UNCHANGED <<outside, books, progress, created, faults, scan, edit, purge, history>>

RescanFill(p) ==
    /\ rescan.at = "fill" /\ p \in rescan.left
    /\ \E id \in IF p.id = 0 THEN FreshIds ELSE {p.id} : PutChapter(rescan.book, p.file, id)
    /\ rescan' = [rescan EXCEPT !.left = @ \ {p}]
    /\ UNCHANGED <<outside, progress, created, faults, scan, edit, purge, history>>

RescanPut ==
    /\ rescan.at = "fill" /\ rescan.left = {}
    /\ Put(rescan.book, rescan.count)
    /\ rescan' = Idle
    /\ UNCHANGED <<outside, chapters, progress, created, faults, scan, edit, purge, history>>

\* a statement fails, or finds the book gone, and the request ends there
RescanFails ==
    /\ rescan.at = "fill"
    /\ Fault \/ (rescan.left # {} /\ rescan.book \notin DOMAIN books /\ UNCHANGED faults)
    /\ rescan' = Idle /\ disturbed' = TRUE
    /\ UNCHANGED <<outside, rows, scan, edit, purge, purged, strayed>>

-----------------------------------------------------------------------------
(* updateMetadata reads the row, changes what the request says, and writes it whole *)

EditReads(b) ==
    /\ edit.at = "idle" /\ b \in DOMAIN books
    /\ edit' = [Idle EXCEPT !.at = "put", !.book = b, !.count = books[b]]
    /\ Begin({scan, rescan, purge}, FALSE)
    /\ UNCHANGED <<there, files, rows, changes, faults, scan, rescan, purge, purged, strayed>>

EditWrites ==
    /\ edit.at = "put"
    /\ Put(edit.book, edit.count)
    /\ edit' = Idle
    /\ UNCHANGED <<outside, chapters, progress, created, faults, scan, rescan, purge, history>>

-----------------------------------------------------------------------------
(* Purging, by the end of a scan or a request: a book whose folder is gone is deleted
   with what refers to it, which goes first *)

PurgeBegins(b) ==
    /\ purge.at = "idle" /\ b \in DOMAIN books /\ ~there
    /\ purge' = [Idle EXCEPT !.at = "refs", !.book = b]
    /\ Begin({scan, rescan, edit}, FALSE)
    /\ UNCHANGED <<there, files, rows, changes, faults, scan, rescan, edit, purged, strayed>>

PurgeRefs ==
    /\ purge.at = "refs"
    /\ progress' = [u \in Ids |-> IF u = purge.book \/ \E c \in Of(purge.book) : progress[u] = c.id
                                  THEN 0 ELSE progress[u]]
    /\ purge' = [purge EXCEPT !.at = "chapters"]
    /\ UNCHANGED <<outside, books, chapters, created, faults, scan, rescan, edit, history>>

\* progress saved meanwhile fails it
PurgeChapters ==
    /\ purge.at = "chapters"
    /\ IF Deletable(purge.book)
       THEN chapters' = chapters \ Of(purge.book) /\ purge' = [purge EXCEPT !.at = "book"]
       ELSE chapters' = chapters /\ purge' = Idle
    /\ UNCHANGED <<outside, books, progress, created, faults, scan, rescan, edit, history>>

\* what was added meanwhile goes with the book, unless the progress of another book refers
\* to it, which fails the statement
PurgeBook ==
    /\ purge.at = "book"
    /\ purge' = Idle
    /\ IF \E c \in Of(purge.book), u \in Ids \ {purge.book} : progress[u] = c.id
       THEN UNCHANGED <<books, chapters, progress, purged>>
       ELSE /\ books' = [b \in DOMAIN books \ {purge.book} |-> books[b]]
            /\ chapters' = chapters \ Of(purge.book)
            /\ progress' = [progress EXCEPT ![purge.book] = 0]
            /\ purged' = purged \cup {purge.book}
    /\ UNCHANGED <<outside, created, faults, scan, rescan, edit, disturbed, strayed>>

\* the server is killed
Crash ==
    /\ Fault
    /\ \E op \in {scan, rescan, edit, purge} : op.at # "idle"
    /\ scan' = Idle /\ rescan' = Idle /\ edit' = Idle /\ purge' = Idle
    /\ disturbed' = TRUE
    /\ UNCHANGED <<outside, rows, purged, strayed>>

Next ==
    \/ Change \/ Crash
    \/ \E b \in DOMAIN books :
          ScanKnown(b) \/ RescanBuild(b) \/ EditReads(b) \/ PurgeBegins(b)
    \/ \E b \in DOMAIN books, c \in chapters : SaveProgress(b, c)
    \/ ScanNew \/ ScanClear \/ ScanPut \/ \E p \in scan.left : ScanFill(p)
    \/ RescanClear \/ RescanPut \/ RescanFails \/ \E p \in rescan.left : RescanFill(p)
    \/ EditWrites \/ PurgeRefs \/ PurgeChapters \/ PurgeBook

Spec == Init /\ [][Next]_vars

-----------------------------------------------------------------------------
\* The variables have their types.
TypeOK ==
    /\ there \in BOOLEAN /\ files \subseteq Files /\ (files # {} => there)
    /\ DOMAIN books \subseteq Ids /\ \A b \in DOMAIN books : books[b] \in Nat
    /\ chapters \subseteq [id : 1..MaxChapters, book : Ids, file : Files]
    /\ progress \in [Ids -> 0..MaxChapters]
    /\ created \in 0..MaxBooks /\ begun \in 0..MaxRuns
    /\ changes \in 0..MaxChanges /\ faults \in 0..MaxFaults
    /\ {scan, rescan, edit, purge} \subseteq Operation
    /\ disturbed \in BOOLEAN /\ purged \subseteq Ids /\ strayed \subseteq Ids

Quiet == \A op \in {scan, rescan, purge} : op.at = "idle"

\* What a listener is at exists, and is a chapter of the book unless the request that saved
\* it named one of another, however scans, rescans and purges that fail half way meet.
ProgressIsKept ==
    \A b \in Ids : progress[b] # 0 =>
        \E c \in chapters : c.id = progress[b] /\ (b \notin strayed => c.book = b)

\* A file has one chapter and a book counts the chapters it has, unless an operation
\* overlapped another or failed half way: a wrong count of none has the chapters
\* of a book that is being listened to read, and written, a second time.
BooksAreWhole ==
    ~disturbed /\ Quiet =>
        /\ \A b \in DOMAIN books : books[b] = Cardinality(Of(b))
        /\ \A c, d \in chapters : c.file = d.file => c = d

\* A book that was purged does not come back, unless it was being written.
PurgedIsGone == ~disturbed => purged \cap DOMAIN books = {}
=============================================================================
