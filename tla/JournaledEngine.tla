-------------------------- MODULE JournaledEngine --------------------------
(***************************************************************************)
(* matching_engine_main with a command journal (src/journal.cpp): pop a    *)
(* command, append it to the journal, apply it, publish the result; fail   *)
(* stop if the append fails; replay the journal after a restart.           *)
(*                                                                         *)
(* Commands are numbered in the order they are sent and an engine is the   *)
(* commands it has applied: MatchingEngine is deterministic for fixed risk *)
(* limits, so equal commands mean equal books, trade ids and sequence      *)
(* numbers.  A record keeps what MatchingEngine looks at: the sequence     *)
(* number of an order is not written, and the engine assigns it anew.      *)
(*                                                                         *)
(* The file is its whole records and whether part of one more follows      *)
(* them; the checks on magic, version, type and CRC tell exactly these two *)
(* apart as long as the medium itself does not corrupt data.  Truncating   *)
(* the file is taken to reach the disk at once.                            *)
(***************************************************************************)
EXTENDS Naturals, Sequences, Functions

CONSTANT MaxCommands   \* bound: commands popped in all

ASSUME JournalAssumption == MaxCommands \in Nat

VARIABLES file, durable,      \* durable: records that survive a power loss
          at,                 \* where the process is
          sync_journal,       \* --sync-journal: FDATASYNC_EACH_RECORD
          next_ordinal, engine, message,
          processed,          \* processed_commands of the shared header
          popped,             \* the newest command taken from the queue
          reported, refused,  \* history of this journal: commands published,
                              \* commands said to be "not applied",
          promised            \* and how many of the published ones must
                              \* survive a power loss

journal == <<file, durable, sync_journal, next_ordinal>>
history == <<reported, refused, promised>>
vars == <<journal, at, engine, message, processed, popped, history>>

Command == 1..MaxCommands
Record == [ordinal : Nat \ {0}, command : Command]
File == [exists : BOOLEAN, records : Seq(Record), torn : BOOLEAN]
Place == {"down", "boot", "loop", "write", "rest", "sync", "apply", "publish", "final"}

TypeOK ==
  /\ file \in File /\ durable \in 0..Len(file.records)
  /\ at \in Place /\ sync_journal \in BOOLEAN /\ next_ordinal \in Nat \ {0}
  /\ engine \in Seq(Command) /\ message \in 0..MaxCommands /\ processed \in Nat
  /\ popped \in 0..MaxCommands /\ reported \in Seq(Command) /\ refused \subseteq Command
  /\ promised \in 0..Len(reported)

NoFile == [exists |-> FALSE, records |-> << >>, torn |-> FALSE]
FileOf(records, torn) == [exists |-> TRUE, records |-> records, torn |-> torn]
Commands(f) == [i \in DOMAIN f.records |-> f.records[i].command]
Increasing(s) == \A i, j \in DOMAIN s : i < j => s[i] < s[j]

Init ==
  /\ file = NoFile /\ durable = 0 /\ sync_journal = FALSE /\ next_ordinal = 1
  /\ at = "down" /\ engine = << >> /\ message = 0 /\ processed = 0
  /\ popped = 0 /\ reported = << >> /\ refused = {} /\ promised = 0
-----------------------------------------------------------------------------
\* Seeded fault: part of a record at the end of the file is ignored.
ReplayableUpToTail(f) ==
  f.exists /\ \A i \in DOMAIN f.records : f.records[i].ordinal = i

\* What replay (and scanFile, for a file that exists) accepts: whole records
\* with the ordinals 1, 2, 3...
Replayable(f) ==
  f.exists /\ ~f.torn /\ \A i \in DOMAIN f.records : f.records[i].ordinal = i

\* Seeded fault: the ordinal of the last record is used again.
LastOrdinal(f) == IF f.records = << >> THEN 1 ELSE Len(f.records)

\* What opening in APPEND mode finds out by scanning the file.
NextOrdinal(f) == Len(f.records) + 1

\* Without --recover the journal is truncated and a new history begins.
StartFresh ==
  /\ at = "down" /\ at' = "boot"
  /\ file' = FileOf(<< >>, FALSE) /\ durable' = 0 /\ sync_journal' \in BOOLEAN /\ next_ordinal' = 1
  /\ engine' = << >> /\ processed' = 0
  /\ reported' = << >> /\ refused' = {} /\ promised' = 0
  /\ UNCHANGED <<message, popped>>

\* With --recover the process replays the journal and opens it in APPEND mode;
\* it exits instead if the file is missing or is refused.
StartRecover ==
  /\ at = "down" /\ Replayable(file) /\ at' = "boot"
  /\ sync_journal' \in BOOLEAN /\ next_ordinal' = NextOrdinal(file)
  /\ engine' = Commands(file) /\ processed' = Len(file.records)
  /\ UNCHANGED <<file, durable, message, popped, history>>

RecoveryFails == at = "down" /\ ~Replayable(file) /\ UNCHANGED vars

\* The region is READY.
Serve == at = "boot" /\ at' = "loop" /\ UNCHANGED <<journal, engine, message, processed, popped, history>>
-----------------------------------------------------------------------------
PopCommand(n) ==
  /\ at = "loop" /\ at' = "write"
  /\ message' = n /\ popped' = n
  /\ UNCHANGED <<journal, engine, processed, history>>

\* A signal, or the idle exit.
Stop == at = "loop" /\ at' = "final" /\ UNCHANGED <<journal, engine, message, processed, popped, history>>

Appended(f) ==
  FileOf(Append(f.records, [ordinal |-> next_ordinal, command |-> message]), FALSE)

\* Seeded fault: the loop goes on although the append failed.
FailureIgnored == "apply"

\* Where the loop goes when the append failed.
FailStop == "final"

AppendFails ==
  /\ at' = FailStop /\ refused' = refused \cup {message}
  /\ UNCHANGED <<journal, engine, message, processed, popped, reported, promised>>

\* appendRecord: write() may write part of the record, and fail afterwards.
Write ==
  \/ /\ at = "write" /\ at' = "rest"
     /\ file' = FileOf(file.records, TRUE)
     /\ UNCHANGED <<durable, sync_journal, next_ordinal, engine, message, processed, popped, history>>
  \/ /\ at \in {"write", "rest"}
     /\ file' = Appended(file) /\ next_ordinal' = next_ordinal + 1
     /\ at' = IF sync_journal THEN "sync" ELSE "apply"
     /\ UNCHANGED <<durable, sync_journal, engine, message, processed, popped, history>>
  \/ at \in {"write", "rest"} /\ AppendFails

\* ... and sync() after every record, if asked for.
Sync ==
  \/ /\ at = "sync" /\ at' = "apply"
     /\ durable' = Len(file.records)
     /\ UNCHANGED <<file, sync_journal, next_ordinal, engine, message, processed, popped, history>>
  \/ at = "sync" /\ AppendFails

Apply ==
  /\ at = "apply" /\ at' = "publish"
  /\ engine' = Append(engine, message)
  /\ UNCHANGED <<journal, message, processed, popped, history>>

\* Trades, report and counters become visible to the other processes.
Publish ==
  /\ at = "publish" /\ at' = "loop"
  /\ reported' = Append(reported, message) /\ processed' = processed + 1
  /\ promised' = IF sync_journal THEN Len(reported') ELSE promised
  /\ UNCHANGED <<journal, engine, message, popped, refused>>

Gone ==
  /\ at' = "down" /\ sync_journal' = FALSE /\ next_ordinal' = 1
  /\ engine' = << >> /\ message' = 0 /\ processed' = 0

\* The end of main: a buffered journal is synced, which may fail.
Exit ==
  /\ at = "final" /\ Gone
  /\ \/ /\ ~sync_journal /\ durable' = Len(file.records)
        /\ promised' = Len(reported)
     \/ UNCHANGED <<durable, promised>>
  /\ UNCHANGED <<file, popped, reported, refused>>
-----------------------------------------------------------------------------
\* The process dies; the kernel keeps what was written.
Crash ==
  /\ at # "down" /\ Gone
  /\ UNCHANGED <<file, durable, popped, history>>

\* The machine dies: of what was not synced any prefix is left, possibly with
\* part of the next record.  What a buffered journal had not synced need not
\* be there any more (docs/persistence.md:44).
PowerLoss ==
  /\ file.exists /\ Gone
  /\ \E n \in durable..Len(file.records), torn \in BOOLEAN :
       /\ torn => file.torn \/ n < Len(file.records)
       /\ file' = FileOf(SubSeq(file.records, 1, n), torn)
       /\ durable' = n
  /\ reported' = SubSeq(reported, 1, promised)
  /\ UNCHANGED <<popped, refused, promised>>

Next ==
  \/ StartFresh \/ StartRecover \/ RecoveryFails \/ Serve
  \/ \E n \in Command : n > popped /\ PopCommand(n)
  \/ Stop \/ Write \/ Sync \/ Apply \/ Publish \/ Exit \/ Crash \/ PowerLoss

Spec == Init /\ [][Next]_vars
-----------------------------------------------------------------------------
\* What journal_replay_main says of a file while or after an engine writes it.
journal_replay_main(f) ==
  IF Replayable(f) THEN [exit |-> 0, records |-> Len(f.records), engine |-> Commands(f)]
                   ELSE [exit |-> 1, records |-> 0, engine |-> << >>]

\* The engine that serves can be rebuilt from the journal ("This avoids
\* continuing with state that cannot be reconstructed"): it has applied the
\* commands of the file in their order, all of them whenever it takes the next
\* command, and at any other time all but the one in hand.  It never builds upon
\* a record that was written in part, the counter it publishes is the number of
\* commands applied, also after a recovery, and whoever inspects the journal
\* between two commands sees exactly the engine.
WriteAhead ==
  at # "down" =>
    /\ \A i \in DOMAIN engine : engine[i] = file.records[i].command
    /\ Len(file.records) - Len(engine) \in
         (CASE at \in {"boot", "loop", "write", "rest", "publish"} -> {0}
            [] at \in {"sync", "apply"} -> {1}
            [] OTHER -> {0, 1})
    /\ file.torn => at \in {"rest", "final"}
    /\ at \in {"boot", "loop"} =>
         /\ processed = Len(engine)
         /\ journal_replay_main(file) = [exit |-> 0, records |-> processed, engine |-> engine]

\* Ordinals have no gap and none is used twice, over any number of crashes,
\* partial writes and recoveries; so a journal is refused for a partial record
\* at its end and for nothing else.
OrdinalsContiguous ==
  /\ TypeOK
  /\ \A i \in DOMAIN file.records : file.records[i].ordinal = i
  /\ at # "down" => next_ordinal = Len(file.records) + 1

\* A report that was published is never taken back: the commands reported are
\* in the journal, in the order of the reports (commands are numbered in the
\* order they are sent), whenever the process dies; and when the machine dies,
\* those reported under --sync-journal or before an orderly exit still are, also
\* if earlier processes used the other mode.
ReportedSurvive ==
  /\ Increasing(reported) /\ Increasing(Commands(file))
  /\ Range(reported) \subseteq Range(Commands(file))

\* "fatal: command was not applied because journal append failed"
\* (matching_engine_main.cpp:235): what was refused stays out of the engine.
RefusedNeverApplied == Range(engine) \cap refused = {}
=============================================================================
