------------------------------- MODULE EbSdb -------------------------------
(***************************************************************************)
(* Scanning the self-describing bus (glue/sdb.c): a scan reads the pointer *)
(* to the root table, a table's header, then the whole table, each with a  *)
(* cycle of its own, and hands the table to a callback, which may start    *)
(* more scans.  Three callbacks: the search by address, the search by      *)
(* identity, and the listing of eb-ls, which runs the socket again from    *)
(* inside its callback.                                                    *)
(*                                                                         *)
(* A cycle is called back once, with its data, with a failed operation or  *)
(* with an error status: that is what EbSocket shows.  The address of a    *)
(* record is one unit here and a table occupies one.                       *)
(***************************************************************************)
EXTENDS Integers, Sequences, FiniteSets

CONSTANTS
    MaxScans,     \* bound: scans the pool has room for
    MaxRecords    \* records that fit eb_sdb_decode256, 255 in the code

ASSUME SdbAssumption == MaxScans \in Nat \ {0} /\ MaxRecords \in Nat \ {0}

VARIABLES
    bus,       \* the remote: bus.root, its tables by address, its devices,
               \* those it may still attach (late) and has attached (others),
               \* and records the stack may hold (junk)
    job,       \* the search: what it looks for and what it has found
    scans,     \* scans with a cycle under way
    frames     \* callbacks that run, innermost first, each holding its scan

sdbVars == <<bus, job, scans, frames>>

NoJob == [kind |-> "none", key |-> 0, deep |-> FALSE, status |-> "idle", found |-> {}, fill |-> 0, pending |-> 0, torn |-> FALSE]

Ids == {s.id : s \in scans} \cup {frames[i].scan : i \in DOMAIN frames}
Room == Cardinality(Ids) < MaxScans
Fresh == CHOOSE i \in 1 .. MaxScans : i \notin Ids
Scan(stage, at, base) == [id |-> Fresh, stage |-> stage, at |-> at, base |-> base, count |-> 0]

(* A record's addresses are relative to its bus. *)
Decoded(r, base) == [r EXCEPT !.first = @ + base, !.last = @ + base, !.child = @ + base]
Records(s) == LET t == bus.tables[s.at] IN [i \in DOMAIN t |-> Decoded(t[i], s.base)]

(* The header says how much to read, the table read says how many records  *)
(* there are: what a table has grown by is decoded from the stack.         *)
Torn(s) == Len(bus.tables[s.at]) > s.count
Decodings(s) ==
    {[i \in DOMAIN Records(s) |-> IF i <= s.count THEN Records(s)[i] ELSE junk] : junk \in bus.junk}
Covers(r, a) == r.first <= a /\ a <= r.last

-----------------------------------------------------------------------------
(* eb_sdb_scan_root: without memory its status is the answer.              *)
ScanRoot(kind, key, deep) ==
    /\ job.status = "idle"
    /\ LET new == [NoJob EXCEPT !.kind = kind, !.key = key, !.deep = deep, !.pending = 1] IN
       \/ scans' = {Scan("ptr", 0, 0)} /\ job' = [new EXCEPT !.status = "run"]
       \/ scans' = scans /\ job' = [new EXCEPT !.status = "bad", !.pending = 0]
    /\ UNCHANGED <<bus, frames>>

(* The socket runs: no callback does, or it waits for a scan of its own.   *)
Running == frames # <<>> => frames[1].wait

\* Mutant: a failed scan is still awaited.
JobFailedPending ==
    CASE job.kind = "list" -> [job EXCEPT !.status = "exit"] [] OTHER -> [job EXCEPT !.status = "bad"]
JobFailed ==
    CASE job.kind = "address" -> [job EXCEPT !.status = "bad"]
      [] job.kind = "identity" -> [job EXCEPT !.status = "bad", !.pending = @ - 1]
      [] job.kind = "list" -> [job EXCEPT !.status = "exit"]

(* A cycle fails, a header has no magic, a table is empty or too large, or *)
(* there is no memory for the next cycle: the scan is given back and the   *)
(* callback hears of it.                                                   *)
Failed(s) ==
    /\ scans' = scans \ {s} /\ job' = JobFailed
    /\ UNCHANGED <<bus, frames>>
Goes(s, stage, at, count) ==
    /\ scans' = (scans \ {s}) \cup {[s EXCEPT !.stage = stage, !.at = at, !.count = count]}
    /\ UNCHANGED <<bus, job, frames>>

GotHeaderPtr(s) == s.stage = "ptr" /\ (Failed(s) \/ Goes(s, "header", bus.root, 0))
GotHeader(s) ==
    /\ s.stage = "header"
    /\ \/ Failed(s)
       \/ s.at \in DOMAIN bus.tables /\ Goes(s, "all", s.at, Len(bus.tables[s.at]))

(* The callback is called with the table; the scan is given back when the  *)
(* callback returns.  list_devices tells its caller to stop waiting.       *)
GotAll(s) ==
    /\ s.stage = "all"
    /\ \/ Failed(s)
       \/ /\ s.count > 0 /\ Len(bus.tables[s.at]) \in 1 .. MaxRecords
          /\ scans' = scans \ {s}
          /\ \E rows \in Decodings(s) :
               frames' = <<[scan |-> s.id, rows |-> rows, i |-> 1, wait |-> FALSE]>>
                         \o [i \in DOMAIN frames |-> [frames[i] EXCEPT !.wait = FALSE]]
          /\ job' = [job EXCEPT !.pending = IF job.kind = "identity" THEN @ - 1 ELSE @, !.torn = @ \/ Torn(s)]
          /\ UNCHANGED bus
SdbAnswer == job.status # "exit" /\ Running /\ \E s \in scans : GotHeaderPtr(s) \/ GotHeader(s) \/ GotAll(s)

-----------------------------------------------------------------------------
(* The callbacks, one record at a time. *)
InCallback(kind) == job.kind = kind /\ job.status # "exit" /\ ~Running
Row == frames[1].rows[frames[1].i]
MoreRows == frames[1].i <= Len(frames[1].rows)
Return == frames' = Tail(frames)
NextRow == frames' = [frames EXCEPT ![1].i = @ + 1]

(* eb_sdb_scan_bus gets a scan and a cycle, or not. *)
ScanBus(r) == Room /\ scans' = scans \cup {Scan("header", r.child, r.first)}
NoScanBus == UNCHANGED scans

FindByAddress ==
    /\ InCallback("address") /\ UNCHANGED bus
    /\ \/ ~MoreRows /\ Return /\ job' = [job EXCEPT !.status = "none"] /\ UNCHANGED scans
       \/ /\ MoreRows /\ ~(Row.type \in {"bridge", "device"} /\ Covers(Row, job.key))
          /\ NextRow /\ UNCHANGED <<job, scans>>
       \/ /\ MoreRows /\ Covers(Row, job.key) /\ Row.type = "bridge" /\ Return
          /\ \/ ScanBus(Row) /\ UNCHANGED job
             \/ NoScanBus /\ job' = [job EXCEPT !.status = "bad"]
       \/ /\ MoreRows /\ Covers(Row, job.key) /\ Row.type = "device" /\ Return
          /\ job' = [job EXCEPT !.status = "ok", !.found = {Row}] /\ UNCHANGED scans

FindByIdentity ==
    /\ InCallback("identity") /\ UNCHANGED bus
    /\ \/ ~MoreRows /\ Return /\ UNCHANGED <<job, scans>>
       \/ MoreRows /\ Row.type = "other" /\ NextRow /\ UNCHANGED <<job, scans>>
       \/ /\ MoreRows /\ Row.type = "device" /\ NextRow /\ UNCHANGED scans
          /\ job' = IF Row.name = job.key THEN [job EXCEPT !.fill = @ + 1, !.found = @ \cup {Row}] ELSE job
       \/ /\ MoreRows /\ Row.type = "bridge" /\ NextRow
          /\ \/ ScanBus(Row) /\ job' = [job EXCEPT !.pending = @ + 1]
             \/ NoScanBus /\ job' = [job EXCEPT !.status = "bad"]

(* Whether the scan of a bridge could be started is not looked at: the     *)
(* loop waits for it all the same.                                         *)
ListDevices ==
    /\ InCallback("list") /\ UNCHANGED bus
    /\ \/ /\ ~MoreRows /\ Return /\ UNCHANGED scans
          /\ job' = IF Len(frames) = 1 THEN [job EXCEPT !.status = "ok"] ELSE job
       \/ /\ MoreRows /\ ~(job.deep /\ Row.type = "bridge") /\ NextRow /\ UNCHANGED scans
          /\ job' = IF Row.type = "other" THEN job ELSE [job EXCEPT !.found = @ \cup {Row}]
       \/ /\ MoreRows /\ job.deep /\ Row.type = "bridge"
          /\ frames' = [frames EXCEPT ![1].i = @ + 1, ![1].wait = TRUE]
          /\ job' = [job EXCEPT !.found = @ \cup {Row}]
          /\ ScanBus(Row) \/ NoScanBus

(* The remote is a program with virtual devices: it attaches one more,     *)
(* first in its table.                                                     *)
Attach ==
    /\ \E d \in bus.late :
         bus' = [bus EXCEPT !.late = @ \ {d}, !.others = @ \cup {d}, !.tables[bus.root] = <<d>> \o @]
    /\ UNCHANGED <<job, scans, frames>>

SdbStep == SdbAnswer \/ FindByAddress \/ FindByIdentity \/ ListDevices

(* The loops around eb_socket_run end. *)
Searched ==
    IF job.kind = "identity" THEN job.status # "idle" /\ job.pending = 0 /\ frames = <<>>
    ELSE job.status \notin {"idle", "run"} /\ (frames = <<>> \/ job.status = "exit")

(* What a search that ended says: a device it found is one that covers the *)
(* address, it finds none only where there is none, and one that met no    *)
(* failure has found every device, each once.  No scan is left.  It may    *)
(* say anything after it read a table that grew.                           *)
AllDevices == bus.devices \cup bus.others
SearchIsRight ==
    Searched /\ ~job.torn =>
        /\ job.status # "exit" => scans = {}
        /\ job.kind = "address" /\ job.status = "ok" =>
              job.found \subseteq AllDevices /\ \A d \in job.found : Covers(d, job.key)
        /\ job.kind = "address" /\ job.status = "none" => ~\E d \in bus.devices : Covers(d, job.key)
        /\ job.kind = "identity" /\ job.status = "run" =>
              /\ {d \in bus.devices : d.name = job.key} \subseteq job.found
              /\ job.found \subseteq {d \in AllDevices : d.name = job.key}
              /\ job.fill = Cardinality(job.found)
        /\ job.kind = "list" /\ job.status = "ok" /\ job.deep => bus.devices \subseteq job.found
=============================================================================
