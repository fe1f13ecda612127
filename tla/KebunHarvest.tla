------------------------------ MODULE KebunHarvest -----------------------------
(***************************************************************************)
(* What GOOD knows of cards: the table panen_raya in a SQLite file, the    *)
(* caches of pairs by number (phone_cache) and of KK by NIK (db_cache).    *)
(* They are used by the flow of a worker, by the thread that imports a CSV *)
(* file and by the main thread that deletes rows in the window; the        *)
(* program may end and be started again at any time.                       *)
(*                                                                         *)
(* A cell of a file is the number, the NIK or the KK of some card, or      *)
(* nothing.  A NIK and a KK both have 16 digits and look alike.  A         *)
(* transaction of SQLite is one step, but for the import's, which fills    *)
(* the caches while it is open and keeps other writers out until its end.  *)
(***************************************************************************)
EXTENDS Integers, Sequences

CONSTANTS
  Cards,      \* cards, each with a number, a NIK and a KK
  Files,      \* CSV files
  BatchSize,  \* records per transaction of an import, 1000 in the code
  MaxEvents   \* bound: flows, imports, deletions, faults and restarts

CellKinds == {"nomor", "nik", "kk"}
Cells == [kind : CellKinds, of : Cards]
None == [kind |-> "none"]  \* no cell, no value

(* A file: the kinds that its header names, none without a header, and     *)
(* rows of cells.                                                          *)
FileType == [header : Seq(CellKinds), rows : Seq(Seq(Cells \cup {None}))]

ASSUME HarvestAssumption ==
  Files \subseteq FileType /\ BatchSize \in Nat \ {0} /\ MaxEvents \in Nat

Cell(kind, c) == [kind |-> kind, of |-> c]
PairOf(c) == [nik |-> Cell("nik", c), kk |-> Cell("kk", c)]
Pairs == [nik : Cells, kk : Cells]
Tables == [Cells -> Pairs \cup {None}]
Empty == [n \in Cells |-> None]

VARIABLES
  db,       \* panen_raya: the pair of a number
  phone,    \* phone_cache
  kkOf,     \* db_cache
  shown,    \* the table of the window, as it was read last
  flow,     \* the flow of a worker
  importer, \* the import thread
  deleter,  \* the main thread
  odd,      \* history: a file was imported that leaves a cell to guess
  raced,    \* history: a deletion met a flow or an import
  gone,     \* history: numbers that were deleted and not stored since
  met,      \* history: those that a flow or an import was about since
  given,    \* history: numbers inserted in the open transaction
  events    \* how many events there were

caches == <<phone, kkOf>>
deletions == <<gone, met, given>>
history == <<odd, raced, deletions>>
harvestVars == <<db, caches, shown, flow, importer, deleter, history, events>>

-----------------------------------------------------------------------------
(* Reading a file.                                                         *)

Sixteen(cell) == cell.kind \in {"nik", "kk"}

Earliest(places) == CHOOSE i \in places : \A j \in places : i <= j
Latest(places) == CHOOSE i \in places : \A j \in places : j <= i
FirstCell(row, places) == IF places = {} THEN None ELSE row[Earliest(places)]

(* _parse_import_row: the first number is the number, the first two cells  *)
(* of 16 digits are NIK and KK; without a number the first cell is one.    *)
ParseImportRow(row) ==
  LET numbers == {i \in DOMAIN row : row[i].kind = "nomor"}
      sixteen == {i \in DOMAIN row : Sixteen(row[i])}
      later == {i \in sixteen : \E j \in sixteen : j < i}
  IN [nomor |-> FirstCell(row, IF numbers = {} THEN DOMAIN row ELSE numbers),
      nik |-> FirstCell(row, sixteen), kk |-> FirstCell(row, later)]

(* The cell in the last column that the header calls kind.                 *)
Column(header, row, kind) ==
  LET columns == {i \in DOMAIN header : header[i] = kind}
  IN IF columns # {} /\ Latest(columns) \in DOMAIN row
     THEN row[Latest(columns)] ELSE None

(* Mutant of RecordOf: the columns are not used.                           *)
ParsedRow(header, row) == ParseImportRow(row)

(* iter_import_records: what no column says is guessed from the row, but   *)
(* for a row whose columns say nothing.                                    *)
RecordOf(header, row) ==
  LET said == [kind \in CellKinds |-> Column(header, row, kind)]
      guess == ParseImportRow(row)
      Or(cell, other) == IF cell = None THEN other ELSE cell
  IN IF header # <<>> /\ \A kind \in CellKinds : said[kind] = None
     THEN [nomor |-> None, nik |-> None, kk |-> None]
     ELSE [nomor |-> Or(said.nomor, guess.nomor),
           nik |-> Or(said.nik, guess.nik), kk |-> Or(said.kk, guess.kk)]

Complete(r) == r.nomor # None /\ r.nik # None /\ r.kk # None
Records(f) == [i \in DOMAIN f.rows |-> RecordOf(f.header, f.rows[i])]
Pair(r) == [nik |-> r.nik, kk |-> r.kk]

(* A file that leaves nothing to guess: the header names the columns, or   *)
(* there is none and the NIK comes before the KK.                          *)
Orders == {o \in [1 .. 3 -> CellKinds] : CellKinds = {o[i] : i \in 1 .. 3}}
NikFirst(o) == \E i, j \in 1 .. 3 : i < j /\ o[i] = "nik" /\ o[j] = "kk"
Clear(f) ==
  \A i \in DOMAIN f.rows : \E c \in Cards, o \in Orders :
    /\ f.rows[i] = [j \in 1 .. 3 |-> Cell(o[j], c)]
    /\ f.header = o \/ (f.header = <<>> /\ NikFirst(o))

-----------------------------------------------------------------------------
FlowIdle == [pc |-> "idle"]
ImportIdle == [pc |-> "idle"]
DeleterIdle == [pc |-> "idle"]
Quiet == flow.pc = "idle" /\ importer.pc = "idle"

HarvestInit ==
  /\ db = Empty /\ phone = Empty /\ kkOf = Empty /\ shown = Empty
  /\ flow = FlowIdle /\ importer = ImportIdle /\ deleter = DeleterIdle
  /\ odd = FALSE /\ raced = FALSE
  /\ gone = {} /\ met = {} /\ given = {}
  /\ events = 0

Event == events < MaxEvents /\ events' = events + 1


(* History: the numbers that a flow or an import is busy with now.         *)
NumbersOf(records) == {records[i].nomor : i \in DOMAIN records} \ {None}
UnderWay ==
  {n \in Cells :
     \/ flow.pc # "idle" /\ flow.nomor = n
     \/ importer.pc \in {"read", "batch"}
        /\ n \in NumbersOf(importer.left) \cup NumbersOf(importer.batch)
     \/ importer.pc = "fill" /\ importer.table[n] # None}

(* History: numbers are deleted; a flow or an import begins.               *)
Deletes(numbers) ==
  /\ raced' = (raced \/ ~Quiet)
  /\ gone' = gone \cup numbers
  /\ met' = (met \ numbers) \cup (UnderWay \cap numbers)
  /\ UNCHANGED given
Begins(numbers) ==
  /\ raced' = (raced \/ deleter.pc # "idle")
  /\ met' = met \cup numbers
  /\ UNCHANGED <<gone, given>>

-----------------------------------------------------------------------------
(* The flow of a worker with a card that is to be extended.                *)

LookupPhoneCache(n) ==
  IF phone[n] # None /\ Sixteen(phone[n].nik) /\ Sixteen(phone[n].kk)
  THEN phone[n] ELSE None

(* NIK and KK from the cache, or the network tells the NIK and db_cache or *)
(* the service the KK; the mode NIK & NIK, where the KK is the NIK, is     *)
(* left out.                                                               *)
StartFlow(c) ==
  LET n == Cell("nomor", c)
      own == PairOf(c)
      known == kkOf[own.nik]
      pair == IF LookupPhoneCache(n) # None THEN LookupPhoneCache(n)
              ELSE IF known # None THEN [own EXCEPT !.kk = known] ELSE own
  IN /\ flow.pc = "idle" /\ Event /\ Begins({n})
     /\ flow' = [pc |-> "phone", nomor |-> n, pair |-> pair, saved |-> FALSE]
     /\ UNCHANGED <<db, caches, shown, importer, deleter, odd>>

(* update_phone_cache keeps only what has 16 digits, save_to_harvest_db    *)
(* everything.                                                             *)
IsKept == flow.saved \/ (Sixteen(flow.pair.nik) /\ Sixteen(flow.pair.kk))

DropPair ==
  /\ flow.pc = "phone" /\ ~IsKept
  /\ flow' = [flow EXCEPT !.pc = "inject"]
  /\ UNCHANGED <<db, caches, shown, importer, deleter, history, events>>

(* Mutant of CachePhone: the cache is not written.                         *)
CacheNothing ==
  /\ flow.pc = "phone"
  /\ flow' = [flow EXCEPT !.pc = "kk"]
  /\ UNCHANGED <<db, caches, shown, importer, deleter, history, events>>

CachePhone ==
  /\ flow.pc = "phone" /\ IsKept
  /\ phone' = [phone EXCEPT ![flow.nomor] = flow.pair]
  /\ flow' = [flow EXCEPT !.pc = "kk"]
  /\ UNCHANGED <<db, kkOf, shown, importer, deleter, history, events>>

CacheKk ==
  /\ flow.pc = "kk"
  /\ kkOf' = [kkOf EXCEPT ![flow.pair.nik] = flow.pair.kk]
  /\ flow' = IF flow.saved THEN FlowIdle ELSE [flow EXCEPT !.pc = "inject"]
  /\ UNCHANGED <<db, phone, shown, importer, deleter, history, events>>

(* The network verifies the card and its pair is saved.                    *)
SaveToHarvestDb ==
  /\ flow.pc = "inject" /\ importer.pc # "batch"
  /\ db' = [db EXCEPT ![flow.nomor] = flow.pair]
  /\ flow' = [flow EXCEPT !.pc = "phone", !.saved = TRUE]
  /\ gone' = gone \ {flow.nomor}
  /\ UNCHANGED <<caches, shown, importer, deleter, odd, raced, met, given,
                 events>>

(* It does not, or the file is locked or full, and nobody is told.         *)
FlowFails ==
  /\ flow.pc = "inject"
  /\ flow' = FlowIdle
  /\ UNCHANGED <<db, caches, shown, importer, deleter, history, events>>

-----------------------------------------------------------------------------
(* The import of a file.                                                   *)

Import(f) ==
  /\ importer.pc = "idle" /\ Event /\ Begins(NumbersOf(Records(f)))
  /\ importer' = [pc |-> "read", left |-> Records(f), batch |-> <<>>]
  /\ odd' = (odd \/ ~Clear(f))
  /\ UNCHANGED <<db, caches, shown, flow, deleter>>

(* What is incomplete is passed over.                                      *)
ReadRecord ==
  /\ importer.pc = "read" /\ importer.left # <<>>
  /\ Len(importer.batch) < BatchSize
  /\ LET r == Head(importer.left)
     IN importer' = [importer EXCEPT !.left = Tail(@),
                       !.batch = IF Complete(r) THEN Append(@, r) ELSE @]
  /\ UNCHANGED <<db, caches, shown, flow, deleter, history, events>>

(* The transaction begins: trans is the table as it sees it.               *)
TakeBatch ==
  /\ importer.pc = "read" /\ importer.batch # <<>>
  /\ importer.left = <<>> \/ Len(importer.batch) = BatchSize
  /\ importer' = [pc |-> "batch", left |-> importer.left,
                  batch |-> importer.batch, trans |-> db]
  /\ given' = {}
  /\ UNCHANGED <<db, caches, shown, flow, deleter, odd, raced, gone, met,
                 events>>

(* save_to_harvest_db_batch: a record goes to the open transaction and to  *)
(* the caches.                                                             *)
InsertRecord ==
  /\ importer.pc = "batch" /\ importer.batch # <<>>
  /\ LET r == Head(importer.batch) IN
       /\ phone' = [phone EXCEPT ![r.nomor] = Pair(r)]
       /\ kkOf' = [kkOf EXCEPT ![r.nik] = r.kk]
       /\ given' = given \cup {r.nomor}
       /\ importer' = [importer EXCEPT !.batch = Tail(@),
                                       !.trans[r.nomor] = Pair(r)]
  /\ UNCHANGED <<db, shown, flow, deleter, odd, raced, gone, met, events>>

(* Mutant of BatchFails: what was inserted stays in the table.             *)
HalfCommitted ==
  /\ importer.pc = "batch" /\ Event
  /\ db' = importer.trans
  /\ importer' = [pc |-> "read", left |-> importer.left, batch |-> <<>>]
  /\ given' = {}
  /\ UNCHANGED <<caches, shown, flow, deleter, odd, raced, gone, met>>

CommitBatch ==
  /\ importer.pc = "batch" /\ importer.batch = <<>>
  /\ db' = importer.trans
  /\ importer' = [pc |-> "read", left |-> importer.left, batch |-> <<>>]
  /\ gone' = gone \ given /\ given' = {}
  /\ UNCHANGED <<caches, shown, flow, deleter, odd, raced, met, events>>

(* The transaction is rolled back, the caches are not.                     *)
BatchFails ==
  /\ importer.pc = "batch" /\ Event
  /\ importer' = [pc |-> "read", left |-> importer.left, batch |-> <<>>]
  /\ given' = {}
  /\ UNCHANGED <<db, caches, shown, flow, deleter, odd, raced, gone, met>>

(* init_database reads the table, then fills the caches.                   *)
ReadTable ==
  /\ importer.pc = "read" /\ importer.left = <<>> /\ importer.batch = <<>>
  /\ importer' = [pc |-> "fill", table |-> db]
  /\ UNCHANGED <<db, caches, shown, flow, deleter, history, events>>

(* db_cache with the rows of a table; one of them if a NIK has more.       *)
WithRows(cache, table) ==
  [k \in Cells |->
     LET rows == {n \in Cells : table[n] # None /\ table[n].nik = k}
     IN IF rows = {} THEN cache[k] ELSE table[CHOOSE n \in rows : TRUE].kk]

FillCaches ==
  /\ importer.pc = "fill"
  /\ phone' = [n \in Cells |-> IF importer.table[n] = None THEN phone[n]
                               ELSE importer.table[n]]
  /\ kkOf' = WithRows(kkOf, importer.table)
  /\ importer' = ImportIdle
  /\ UNCHANGED <<db, shown, flow, deleter, history, events>>

-----------------------------------------------------------------------------
(* The window.  The rows that the user can select are those it shows.      *)

Refresh ==
  /\ deleter.pc = "idle" /\ shown # db
  /\ shown' = db
  /\ UNCHANGED <<db, caches, flow, importer, deleter, history, events>>

DeleteAll ==
  /\ deleter.pc = "idle" /\ importer.pc # "batch" /\ Event
  /\ db' = Empty
  /\ deleter' = [pc |-> "all"]
  /\ Deletes(Cells)
  /\ UNCHANGED <<caches, shown, flow, importer, odd>>

DeleteRow(n) ==
  /\ deleter.pc = "idle" /\ importer.pc # "batch" /\ Event
  /\ shown[n] # None
  /\ db' = [db EXCEPT ![n] = None]
  /\ deleter' = [pc |-> "row", nomor |-> n]
  /\ Deletes({n})
  /\ UNCHANGED <<caches, shown, flow, importer, odd>>

ClearCaches ==
  /\ deleter.pc = "all"
  /\ phone' = Empty /\ kkOf' = Empty
  /\ shown' = db
  /\ deleter' = DeleterIdle
  /\ UNCHANGED <<db, flow, importer, history, events>>

(* Mutant of PopRow: the number stays in the cache.                        *)
PopNik ==
  /\ deleter.pc = "row"
  /\ kkOf' = [kkOf EXCEPT ![shown[deleter.nomor].nik] = None]
  /\ shown' = db
  /\ deleter' = DeleterIdle
  /\ UNCHANGED <<db, phone, flow, importer, history, events>>

(* The NIK is dropped only if it still has the KK of the row that is shown.*)
PopRow ==
  /\ deleter.pc = "row"
  /\ phone' = [phone EXCEPT ![deleter.nomor] = None]
  /\ LET row == shown[deleter.nomor] IN
       kkOf' = [kkOf EXCEPT ![row.nik] = IF @ = row.kk THEN None ELSE @]
  /\ shown' = db
  /\ deleter' = DeleterIdle
  /\ UNCHANGED <<db, flow, importer, history, events>>

-----------------------------------------------------------------------------
(* The program ends at any time; at its start init_database runs first.    *)

Restart ==
  /\ Event
  /\ phone' = db /\ kkOf' = WithRows(Empty, db) /\ shown' = Empty
  /\ flow' = FlowIdle /\ importer' = ImportIdle /\ deleter' = DeleterIdle
  /\ met' = {} /\ given' = {}
  /\ UNCHANGED <<db, odd, raced, gone>>

-----------------------------------------------------------------------------
Flow == \/ \E c \in Cards : StartFlow(c)
        \/ DropPair \/ CachePhone \/ CacheKk \/ SaveToHarvestDb \/ FlowFails
Importing == \/ ReadRecord \/ TakeBatch \/ InsertRecord \/ CommitBatch
             \/ ReadTable \/ FillCaches
Window == \/ Refresh \/ DeleteAll \/ (\E n \in Cells : DeleteRow(n))
          \/ ClearCaches \/ PopRow
HarvestNext == \/ Flow \/ Importing \/ Window \/ BatchFails \/ Restart
               \/ \E f \in Files : Import(f)

HarvestSpec == HarvestInit /\ [][HarvestNext]_harvestVars

-----------------------------------------------------------------------------
(* Every variable has its type.                                            *)
HarvestTypeOK ==
  /\ db \in Tables /\ phone \in Tables /\ shown \in Tables
  /\ kkOf \in [Cells -> Cells \cup {None}]
  /\ \/ flow = FlowIdle
     \/ flow \in [pc : {"phone", "kk", "inject"}, nomor : Cells, pair : Pairs,
                  saved : BOOLEAN]
  /\ importer.pc \in {"idle", "read", "batch", "fill"}
  /\ deleter.pc \in {"idle", "all", "row"}
  /\ odd \in BOOLEAN /\ raced \in BOOLEAN
  /\ gone \subseteq Cells /\ met \subseteq Cells /\ given \subseteq Cells
  /\ events \in 0 .. MaxEvents

IsOwn(n, pair) ==
  pair # None => n.kind = "nomor" /\ pair = PairOf(n.of)

(* While all imported files were clear, no number is ever paired with data *)
(* of another card, or with NIK and KK exchanged: not in the file, not in  *)
(* the caches, and not in the flow that is about to inject them.           *)
PairsAreGiven ==
  ~odd =>
    /\ \A n \in Cells : IsOwn(n, db[n]) /\ IsOwn(n, phone[n])
    /\ \A k \in Cells : kkOf[k] # None => kkOf[k] = Cell("kk", k.of)
    /\ flow.pc # "idle" => IsOwn(flow.nomor, flow.pair)

(* When nothing runs, every stored number is in the cache that saves its   *)
(* dial, unless a deletion met a flow or an import: after failed batches,  *)
(* deletions and restarts too.                                             *)
StoredIsCached ==
  ~raced /\ Quiet /\ deleter.pc = "idle" =>
    \A n \in Cells : db[n] # None => phone[n] # None

(* A deleted number is not in the table until a flow stores it or a batch  *)
(* with it is committed: no batch that is rolled back and no import that   *)
(* was under way brings it back there, however deletions meet flows and    *)
(* imports.  It is not in the cache either, unless a flow or an import was *)
(* about it when it was deleted or began to be since: those do write to    *)
(* the cache what is not in the table, a batch that fails, an import whose *)
(* table was read before the deletion, a flow whose row was deleted before *)
(* it is cached; no other number comes back, and after a restart none.     *)
DeletedStaysGone ==
  \A n \in gone :
    /\ db[n] = None
    /\ deleter.pc = "idle" /\ n \notin met => phone[n] = None

================================================================================
