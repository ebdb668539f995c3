------------------------ MODULE EngineProcessProofs ------------------------
(***************************************************************************)
(* The journal: write-ahead, contiguous ordinals and durable reports, for  *)
(* any number of commands, crashes, power losses, failed writes and        *)
(* recoveries.  The process: the handshake, for any number of regions,     *)
(* restarts and orders, that the composed processes behave as the journal's *)
(* specification says, and in which order the orders of a feed that is run *)
(* again and again arrive.                                                 *)
(***************************************************************************)
EXTENDS EngineProcess, TLAPS

Cmd(i) == file.records[i].command

\* What the process knows of its file at each place of its loop.
Lag ==
  at # "down" =>
    /\ file.exists /\ next_ordinal = Len(file.records) + 1
    /\ at \in {"boot", "loop", "write", "rest", "publish"} => Len(engine) = Len(file.records)
    /\ at \in {"sync", "apply"} => Len(engine) + 1 = Len(file.records)
    /\ at = "final" => Len(file.records) - Len(engine) \in {0, 1}
    /\ \A i \in 1..Len(engine) : engine[i] = Cmd(i)
    /\ file.torn => at \in {"rest", "final"}
    /\ at \in {"boot", "loop", "write", "rest", "sync", "apply"} => processed = Len(engine)
    /\ at = "publish" => processed + 1 = Len(engine)
    /\ at \in {"sync", "apply", "publish"} => Cmd(Len(file.records)) = message

\* Commands get larger along the file and along the reports, and the command in
\* hand is larger than all that are finished.
Numbers ==
  /\ \A i \in 1..Len(file.records) : file.records[i].ordinal = i /\ Cmd(i) <= popped
  /\ \A i, j \in 1..Len(file.records) : i < j => Cmd(i) < Cmd(j)
  /\ \A k \in 1..Len(reported) : reported[k] <= popped
  /\ \A k, l \in 1..Len(reported) : k < l => reported[k] < reported[l]
  /\ at \in {"write", "rest"} => \A i \in 1..Len(file.records) : Cmd(i) < message
  /\ at \in {"write", "rest", "sync", "apply", "publish"} =>
       message \in Command /\ message = popped /\ \A k \in 1..Len(reported) : reported[k] < message

\* The first n reports are among the first m records.
Kept(reports, n, records, m) == \A k \in 1..n : \E i \in 1..m : records[i].command = reports[k]

Durable ==
  /\ Kept(reported, Len(reported), file.records, Len(file.records))
  /\ Kept(reported, promised, file.records, durable)
  /\ sync_journal /\ at \in {"apply", "publish"} => durable = Len(file.records)

JInv == TypeOK /\ Lag /\ Numbers /\ Durable

\* The inductive invariant contains the three properties.
LEMMA JInvImplies == JInv => WriteAhead /\ OrdinalsContiguous /\ ReportedSurvive
<1> SUFFICES ASSUME JInv PROVE WriteAhead /\ OrdinalsContiguous /\ ReportedSurvive
  OBVIOUS
<1>1. /\ file.records \in Seq(Record) /\ engine \in Seq(Command) /\ reported \in Seq(Command)
      /\ Len(file.records) \in Nat /\ Len(engine) \in Nat /\ Len(reported) \in Nat
      /\ DOMAIN file.records = 1..Len(file.records) /\ DOMAIN engine = 1..Len(engine)
      /\ DOMAIN reported = 1..Len(reported) /\ at \in Place
  BY DEF JInv, TypeOK, File
<1>2. OrdinalsContiguous
  BY <1>1, SMT DEF JInv, Numbers, Lag, OrdinalsContiguous
<1>3. ReportedSurvive
  <2>1. DOMAIN Commands(file) = 1..Len(file.records)
        /\ \A i \in 1..Len(file.records) : Commands(file)[i] = Cmd(i)
    BY <1>1 DEF Commands, Cmd
  <2>2. Increasing(reported) /\ Increasing(Commands(file))
    BY <1>1, <2>1, SMT DEF JInv, Numbers, Increasing
  <2>3. ASSUME NEW c \in Range(reported) PROVE c \in Range(Commands(file))
    <3>1. PICK k \in 1..Len(reported) : reported[k] = c
      BY <1>1, Zenon DEF Range
    <3>2. PICK i \in 1..Len(file.records) : Cmd(i) = c
      BY <3>1, Zenon DEF JInv, Durable, Kept, Cmd
    <3> QED
      BY <2>1, <3>2, Zenon DEF Range
  <2> QED
    BY <2>2, <2>3, Zenon DEF ReportedSurvive
<1>4. WriteAhead
  <2> SUFFICES ASSUME at # "down" PROVE WriteAhead
    BY Zenon DEF WriteAhead
  <2>1. \A i \in DOMAIN engine : engine[i] = file.records[i].command
    BY <1>1, Zenon DEF JInv, Lag, Cmd
  <2>2. Len(file.records) - Len(engine) \in
         (CASE at \in {"boot", "loop", "write", "rest", "publish"} -> {0}
            [] at \in {"sync", "apply"} -> {1}
            [] OTHER -> {0, 1})
    BY <1>1 DEF JInv, Lag, Place
  <2>3. file.torn => at \in {"rest", "final"}
    BY DEF JInv, Lag
  <2>4. ASSUME at \in {"boot", "loop"}
        PROVE  /\ processed = Len(engine)
               /\ journal_replay_main(file) = [exit |-> 0, records |-> processed, engine |-> engine]
    <3>1. processed = Len(engine) /\ Len(engine) = Len(file.records) /\ file.exists /\ ~file.torn
      BY <2>4 DEF JInv, Lag
    <3>2. Replayable(file)
      BY <1>1, <3>1 DEF JInv, Numbers, Replayable
    <3>3. Commands(file) = engine
      BY <1>1, <3>1, <2>1 DEF Commands
    <3> QED
      BY <3>1, <3>2, <3>3 DEF journal_replay_main
  <2> QED
    BY <2>1, <2>2, <2>3, <2>4, Zenon DEF WriteAhead
<1> QED
  BY <1>2, <1>3, <1>4

\* Facts every step of the induction uses.
LEMMA JTypes ==
  ASSUME TypeOK
  PROVE  /\ file.records \in Seq(Record) /\ engine \in Seq(Command) /\ reported \in Seq(Command)
         /\ Len(file.records) \in Nat /\ Len(engine) \in Nat /\ Len(reported) \in Nat
         /\ DOMAIN file.records = 1..Len(file.records) /\ DOMAIN engine = 1..Len(engine)
         /\ DOMAIN reported = 1..Len(reported) /\ at \in Place /\ file \in File
         /\ durable \in 0..Len(file.records) /\ promised \in 0..Len(reported)
         /\ \A i \in 1..Len(file.records) : Cmd(i) \in Command
         /\ Command \subseteq Nat /\ popped \in Nat /\ MaxCommands \in Nat
<1>1. file.records \in Seq(Record) /\ engine \in Seq(Command) /\ reported \in Seq(Command)
      /\ at \in Place /\ file \in File
      /\ durable \in 0..Len(file.records) /\ promised \in 0..Len(reported)
  BY SMT DEF TypeOK, File
<1>2. Command \subseteq Nat /\ popped \in Nat /\ MaxCommands \in Nat
  BY JournalAssumption, SMT DEF TypeOK, Command
<1>3. \A i \in 1..Len(file.records) : file.records[i] \in Record
  BY <1>1, SMT
<1>4. \A i \in 1..Len(file.records) : Cmd(i) \in Command
  BY <1>3, SMT DEF Cmd, Record
<1> QED
  BY <1>1, <1>2, <1>4, SMT

LEMMA JInitInv == Init => JInv
<1> SUFFICES ASSUME Init PROVE JInv
  OBVIOUS
<1>1. file \in File /\ file.records = << >> /\ at \in Place
  BY SMT DEF Init, NoFile, File, Place
<1>2. Len(file.records) = 0 /\ Len(reported) = 0 /\ at = "down" /\ promised = 0 /\ durable = 0
  BY <1>1, SMT DEF Init
<1>3. engine \in Seq(Command) /\ reported \in Seq(Command) /\ refused \subseteq Command
  BY SMT DEF Init
<1>4. TypeOK
  <2>1. sync_journal \in BOOLEAN /\ next_ordinal = 1 /\ message = 0 /\ popped = 0 /\ processed = 0
    BY Zenon DEF Init
  <2> QED
    BY <1>1, <1>2, <1>3, <2>1, JournalAssumption, SMT DEF TypeOK
<1> QED
  BY <1>2, <1>4, SMT DEF JInv, Lag, Numbers, Durable, Kept

LEMMA FileFields ==
  ASSUME NEW r \in Seq(Record), NEW b \in BOOLEAN
  PROVE  /\ FileOf(r, b) \in File /\ FileOf(r, b).exists
         /\ FileOf(r, b).records = r /\ FileOf(r, b).torn = b
BY Zenon DEF FileOf, File

\* The process starts.
LEMMA StartFreshInv ==
  ASSUME JInv, StartFresh
  PROVE  JInv'
<1>1. << >> \in Seq(Record) /\ << >> \in Seq(Command) /\ Len(<< >>) = 0 /\ 1 \in Nat \ {0} /\ 0 \in Nat
      /\ 0 \in 0..0 /\ 1..0 = {} /\ 1 = 0 + 1
  BY SMT
<1>2. file' \in File /\ file'.records = << >> /\ file'.exists /\ file'.torn = FALSE
  BY <1>1, FileFields, Zenon DEF StartFresh
<1>3. /\ reported' = << >> /\ engine' = << >> /\ at' = "boot" /\ promised' = 0 /\ durable' = 0
      /\ next_ordinal' = 1 /\ processed' = 0 /\ refused' = {} /\ sync_journal' \in BOOLEAN
      /\ message' = message /\ popped' = popped
  BY Zenon DEF StartFresh
<1>4. TypeOK'
  BY <1>1, <1>2, <1>3, Zenon DEF JInv, TypeOK, Place
<1>5. Lag'
  BY <1>1, <1>2, <1>3, Zenon DEF Lag
<1>6. Numbers' /\ Durable'
  BY <1>1, <1>2, <1>3, Zenon DEF Numbers, Durable, Kept
<1> QED
  BY <1>4, <1>5, <1>6, Zenon DEF JInv

LEMMA StartRecoverInv ==
  ASSUME JInv, StartRecover
  PROVE  JInv'
<1>1. Commands(file) \in Seq(Command) /\ Len(Commands(file)) = Len(file.records)
      /\ \A i \in 1..Len(file.records) : Commands(file)[i] = Cmd(i)
  <2>1. Commands(file) = [i \in 1..Len(file.records) |-> Cmd(i)]
    BY JTypes, Zenon DEF JInv, Commands, Cmd
  <2>2. Len(file.records) \in Nat /\ \A i \in 1..Len(file.records) : Cmd(i) \in Command
    BY JTypes, Zenon DEF JInv
  <2> HIDE DEF Cmd
  <2> QED
    BY <2>1, <2>2, SMT
<1>3. /\ at' = "boot" /\ engine' = Commands(file) /\ processed' = Len(file.records)
      /\ next_ordinal' = Len(file.records) + 1 /\ file.exists /\ ~file.torn
      /\ UNCHANGED <<file, durable, reported, promised, popped, message, refused>>
      /\ sync_journal' \in BOOLEAN
  BY DEF StartRecover, Replayable, NextOrdinal, history
<1>2. TypeOK'
  BY <1>1, <1>3, JTypes, SMT DEF JInv, TypeOK, Place
<1>4. Lag'
  BY <1>1, <1>3, SMT DEF Lag, Cmd
<1>5. Numbers'
  BY <1>3, SMT DEF JInv, Numbers, Cmd
<1>6. Durable'
  BY <1>3, Zenon DEF JInv, Durable
<1> QED
  BY <1>2, <1>4, <1>5, <1>6, Zenon DEF JInv

\* Steps that leave the file and the reports alone.
LEMMA IdleInv ==
  ASSUME JInv, Serve \/ Stop \/ \E n \in Command : n > popped /\ PopCommand(n)
  PROVE  JInv'
<1> USE DEF JInv
<1>1. CASE Serve \/ Stop
  <2>1. /\ UNCHANGED <<file, durable, sync_journal, next_ordinal, engine, message, processed,
                       popped, reported, refused, promised>>
        /\ (at = "boot" /\ at' = "loop") \/ (at = "loop" /\ at' = "final")
    BY <1>1, Zenon DEF Serve, Stop, journal, history
  <2>2. TypeOK'
    BY <2>1, SMT DEF TypeOK, Place
  <2>3. Lag'
    BY <2>1, JTypes, SMT DEF Lag, Cmd
  <2>4. Numbers'
    BY <2>1, SMT DEF Numbers, Cmd
  <2>5. Durable'
    BY <2>1, Zenon DEF Durable
  <2> QED
    BY <2>2, <2>3, <2>4, <2>5, Zenon
<1>2. ASSUME NEW n \in Command, n > popped, PopCommand(n) PROVE JInv'
  <2>1. /\ UNCHANGED <<file, durable, sync_journal, next_ordinal, engine, processed,
                       reported, refused, promised>>
        /\ at = "loop" /\ at' = "write" /\ message' = n /\ popped' = n
    BY <1>2, Zenon DEF PopCommand, journal, history
  <2>2. TypeOK'
    BY <2>1, JTypes, SMT DEF TypeOK, Place, Command
  <2>3. Lag'
    BY <2>1, JTypes, SMT DEF Lag, Cmd
  <2>4. Numbers'
    <3>1. \A i \in 1..Len(file.records) : Cmd(i) < n /\ Cmd(i) <= n
      <4> TAKE i \in 1..Len(file.records)
      <4>1. Cmd(i) <= popped /\ Cmd(i) \in Nat /\ n \in Nat /\ popped \in Nat
        BY JTypes, Zenon DEF Numbers
      <4> QED
        BY <1>2, <4>1, SMT
    <3>2. \A k \in 1..Len(reported) : reported[k] < n /\ reported[k] <= n
      <4> TAKE k \in 1..Len(reported)
      <4>1. reported[k] <= popped /\ reported[k] \in Command
        BY JTypes, SMT DEF Numbers
      <4>2. reported[k] \in Nat /\ n \in Nat /\ popped \in Nat
        BY <4>1, JTypes, Zenon
      <4> QED
        BY <1>2, <4>1, <4>2, SMT
    <3> QED
      BY <2>1, <3>1, <3>2, Zenon DEF Numbers, Cmd
  <2>5. Durable'
    BY <2>1, Zenon DEF Durable
  <2> QED
    BY <2>2, <2>3, <2>4, <2>5, Zenon
<1> QED
  BY <1>1, <1>2, Zenon

\* A process that is gone has no state that could be ill-typed.
LEMMA GoneTypes ==
  ASSUME Gone
  PROVE  /\ at' \in Place /\ sync_journal' \in BOOLEAN /\ next_ordinal' \in Nat \ {0}
         /\ engine' \in Seq(Command) /\ message' \in 0..MaxCommands /\ processed' \in Nat
<1>1. << >> \in Seq(Command) /\ 1 \in Nat \ {0} /\ 0 \in Nat
  BY SMT
<1>2. 0 \in 0..MaxCommands
  BY JournalAssumption, SMT
<1>3. "down" \in Place /\ FALSE \in BOOLEAN
  BY Zenon DEF Place
<1> QED
  BY <1>1, <1>2, <1>3, Zenon DEF Gone

LEMMA Prefix ==
  ASSUME NEW S, NEW s \in Seq(S), NEW n \in 0..Len(s)
  PROVE  /\ SubSeq(s, 1, n) \in Seq(S) /\ Len(SubSeq(s, 1, n)) = n
         /\ \A i \in 1..n : SubSeq(s, 1, n)[i] = s[i]
         /\ 1..n \subseteq 1..Len(s)
BY SMT

\* The process ends: what is left is the file and the reports.
LEMMA GoneInv ==
  ASSUME JInv, Gone, UNCHANGED <<file, popped, reported, refused>>,
         durable' \in 0..Len(file.records), promised' \in 0..Len(reported), Kept(reported, promised, file.records, durable)'
  PROVE  JInv'
<1> USE DEF JInv
<1>1. TypeOK'
  BY GoneTypes, Zenon DEF TypeOK
<1>2. Lag' /\ Numbers'
  <2>1. at' = "down"
    BY Zenon DEF Gone
  <2>2. Lag'
    BY <2>1, Zenon DEF Lag
  <2>3. Numbers'
    BY <2>1, Zenon DEF Numbers, Cmd
  <2> QED
    BY <2>2, <2>3, Zenon
<1>3. Durable'
  BY Zenon DEF Durable, Gone
<1> QED
  BY <1>1, <1>2, <1>3, Zenon

LEMMA EndInv ==
  ASSUME JInv, Exit \/ Crash
  PROVE  JInv'
<1> USE DEF JInv
<1>1. Gone /\ UNCHANGED <<file, popped, reported, refused>>
  BY Zenon DEF Exit, Crash, history
<1>2. \/ UNCHANGED <<durable, promised>>
      \/ durable' = Len(file.records) /\ promised' = Len(reported)
  BY Zenon DEF Exit, Crash, history
<1>3. durable' \in 0..Len(file.records) /\ promised' \in 0..Len(reported)
  BY <1>2, JTypes, SMT
<1>4. Kept(reported, promised, file.records, durable)'
  BY <1>1, <1>2, SMT DEF Durable, Kept, Cmd
<1> QED
  BY <1>1, <1>3, <1>4, GoneInv, Zenon

\* The power fails: what was synced is a prefix of the file, and holds what was promised.
LEMMA PowerLossInv ==
  ASSUME JInv, PowerLoss
  PROVE  JInv'
<1> USE DEF JInv
<1>1. PICK n \in durable..Len(file.records), torn \in BOOLEAN :
        /\ file' = FileOf(SubSeq(file.records, 1, n), torn)
        /\ durable' = n
  BY Zenon DEF PowerLoss
<1>2. /\ n \in 0..Len(file.records) /\ n \in Nat /\ durable <= n
  BY JTypes, SMT
<1>s. SubSeq(file.records, 1, n) \in Seq(Record) /\ Len(SubSeq(file.records, 1, n)) = n
      /\ \A i \in 1..n : SubSeq(file.records, 1, n)[i] = file.records[i]
      /\ 1..n \subseteq 1..Len(file.records)
  BY <1>2, JTypes, Prefix, Zenon
<1>3. file'.records = SubSeq(file.records, 1, n) /\ file' \in File
  BY <1>1, <1>s, FileFields, Zenon
<1>4. Len(file'.records) = n /\ \A i \in 1..n : file'.records[i] = file.records[i]
  BY <1>s, <1>3, Zenon
<1>5. /\ reported' = SubSeq(reported, 1, promised) /\ UNCHANGED <<popped, refused, promised>> /\ Gone
  BY Zenon DEF PowerLoss
<1>6. reported' \in Seq(Command) /\ Len(reported') = promised
      /\ (\A k \in 1..promised : reported'[k] = reported[k]) /\ 1..promised \subseteq 1..Len(reported)
  BY <1>5, JTypes, Prefix, Zenon
<1>7. TypeOK'
  <2>1. durable' \in 0..Len(file'.records) /\ promised' \in 0..Len(reported')
    BY <1>1, <1>2, <1>4, <1>5, <1>6, JTypes, SMT
  <2>2. popped' \in 0..MaxCommands /\ refused' \subseteq Command
    BY <1>5, Zenon DEF TypeOK
  <2> QED
    BY <1>3, <1>5, <1>6, <2>1, <2>2, GoneTypes, Zenon DEF TypeOK
<1>8. at' = "down" /\ sync_journal' = FALSE
  BY <1>5, Zenon DEF Gone
<1>9. Numbers'
  <2>1. \A i \in 1..n : file'.records[i].ordinal = i /\ Cmd(i)' <= popped' /\ Cmd(i)' = Cmd(i)
    BY <1>s, <1>4, <1>5, Zenon DEF Numbers, Cmd
  <2>2. \A i, j \in 1..n : i < j => Cmd(i)' < Cmd(j)'
    BY <1>s, <2>1, Zenon DEF Numbers
  <2>3. \A k \in 1..promised : reported'[k] <= popped'
    BY <1>5, <1>6, Zenon DEF Numbers
  <2>4. \A k, l \in 1..promised : k < l => reported'[k] < reported'[l]
    BY <1>6, Zenon DEF Numbers
  <2> QED
    BY <1>4, <1>6, <1>8, <2>1, <2>2, <2>3, <2>4, Zenon DEF Numbers
<1>10. Durable'
  <2>1. 1..durable \subseteq 1..n
    BY <1>2, JTypes, SMT
  <2>2. \A k \in 1..promised : \E i \in 1..n : file'.records[i].command = reported'[k]
    <3> TAKE k \in 1..promised
    <3>1. PICK i \in 1..durable : Cmd(i) = reported[k]
      BY Zenon DEF Durable, Kept, Cmd
    <3> QED
      BY <1>4, <1>6, <2>1, <3>1, Zenon DEF Cmd
  <2> QED
    BY <1>1, <1>4, <1>5, <1>6, <1>8, <2>2, Zenon DEF Durable, Kept, Cmd
<1> QED
  BY <1>7, <1>8, <1>9, <1>10, SMT DEF Lag

\* The append fails, in whichever way.
LEMMA AppendFailsInv ==
  ASSUME JInv, at \in {"write", "rest", "sync"}, AppendFails
  PROVE  JInv'
<1> USE DEF JInv
<1>1. /\ UNCHANGED <<file, durable, sync_journal, next_ordinal, engine, message, processed,
                     popped, reported, promised>>
      /\ at' = "final" /\ refused' = refused \cup {message}
  BY Zenon DEF AppendFails, FailStop, journal
<1>2. TypeOK'
  <2>1. refused' \subseteq Command
    BY <1>1, Zenon DEF TypeOK, Numbers
  <2> QED
    BY <1>1, <2>1, Zenon DEF TypeOK, Place
<1>3. Lag'
  <2>1. Len(file.records) - Len(engine) \in {0, 1}
    BY JTypes, SMT DEF Lag
  <2> QED
    BY <1>1, <2>1, Zenon DEF Lag, Cmd
<1>4. Numbers'
  BY <1>1, Zenon DEF Numbers, Cmd
<1>5. Durable'
  BY <1>1, Zenon DEF Durable
<1> QED
  BY <1>2, <1>3, <1>4, <1>5, Zenon

\* Part of a record has been written.
LEMMA TornInv ==
  ASSUME JInv, at = "write", at' = "rest", file' = FileOf(file.records, TRUE),
         UNCHANGED <<durable, sync_journal, next_ordinal, engine, message, processed, popped, history>>
  PROVE  JInv'
<1> USE DEF JInv
<1>1. file' \in File /\ file'.records = file.records /\ file'.exists /\ file'.torn = TRUE
  BY JTypes, FileFields, Zenon
<1>2. UNCHANGED <<reported, refused, promised>>
  BY Zenon DEF history
<1>3. TypeOK'
  BY <1>1, <1>2, Zenon DEF TypeOK, Place
<1>4. Lag'
  BY <1>1, Zenon DEF Lag, Cmd
<1>5. Numbers'
  BY <1>1, <1>2, Zenon DEF Numbers, Cmd
<1>6. Durable'
  BY <1>1, <1>2, Zenon DEF Durable
<1> QED
  BY <1>3, <1>4, <1>5, <1>6, Zenon

LEMMA Extended ==
  ASSUME NEW S, NEW s \in Seq(S), NEW e \in S
  PROVE  /\ Append(s, e) \in Seq(S) /\ Len(Append(s, e)) = Len(s) + 1
         /\ \A i \in 1..Len(s) : Append(s, e)[i] = s[i]
         /\ Append(s, e)[Len(s) + 1] = e
         /\ 1..(Len(s) + 1) = 1..Len(s) \cup {Len(s) + 1}
         /\ Len(s) \in Nat
BY SMT

\* The whole record has been written.
LEMMA WrittenInv ==
  ASSUME JInv, at \in {"write", "rest"}, file' = Appended(file), next_ordinal' = next_ordinal + 1,
         at' = IF sync_journal THEN "sync" ELSE "apply",
         UNCHANGED <<durable, sync_journal, engine, message, processed, popped, history>>
  PROVE  JInv'
<1> USE DEF JInv
<1>n. PICK n \in Nat : n = Len(file.records)
  BY JTypes, Zenon
<1>r. PICK record : record = [ordinal |-> next_ordinal, command |-> message]
  BY Zenon
<1>2. /\ next_ordinal = n + 1 /\ Len(engine) = n /\ file.exists /\ processed = n
      /\ message \in Command /\ message = popped /\ \A i \in 1..n : Cmd(i) < message
      /\ \A k \in 1..Len(reported) : reported[k] < message
  BY <1>n, Zenon DEF Lag, Numbers
<1>1. record \in Record /\ record.ordinal = n + 1 /\ record.command = message
  BY <1>r, <1>2, Zenon DEF Record, TypeOK
<1>3. file' = FileOf(Append(file.records, record), FALSE)
  BY <1>r, Zenon DEF Appended
<1>4. Append(file.records, record) \in Seq(Record)
      /\ Len(Append(file.records, record)) = n + 1 /\ Append(file.records, record)[n + 1] = record
      /\ (\A i \in 1..n : Append(file.records, record)[i] = file.records[i])
      /\ 1..(n + 1) = 1..n \cup {n + 1}
  <2>1. file.records \in Seq(Record)
    BY JTypes, Zenon
  <2> QED
    BY <1>1, <1>n, <2>1, Extended, SMT
<1>5. file' \in File /\ file'.records = Append(file.records, record) /\ file'.exists /\ file'.torn = FALSE
  BY <1>3, <1>4, FileFields, Zenon
<1>6. Len(file'.records) = n + 1 /\ file'.records[n + 1].ordinal = n + 1 /\ Cmd(n + 1)' = message
      /\ \A i \in 1..n : file'.records[i] = file.records[i] /\ Cmd(i)' = Cmd(i)
  BY <1>1, <1>4, <1>5, Zenon DEF Cmd
<1>7. UNCHANGED <<durable, sync_journal, engine, message, processed, popped, reported, refused, promised>>
      /\ at' \in {"sync", "apply"} /\ (sync_journal => at' = "sync")
  BY Zenon DEF history
<1>8. TypeOK'
  <2>1. durable' \in 0..(n + 1) /\ next_ordinal' \in Nat \ {0}
    BY <1>2, <1>n, <1>7, JTypes, SMT
  <2> QED
    BY <1>5, <1>6, <1>7, <2>1, Zenon DEF TypeOK, Place
<1>9. Lag'
  <2>1. \A i \in 1..n : engine'[i] = Cmd(i)'
    BY <1>2, <1>6, <1>7, Zenon DEF Lag
  <2> QED
    BY <1>2, <1>5, <1>6, <1>7, <2>1, Zenon DEF Lag
<1>10. Numbers'
  <2>1. \A i \in 1..n : file'.records[i].ordinal = i /\ Cmd(i)' <= popped'
    BY <1>n, <1>6, <1>7, Zenon DEF Numbers
  <2>2. message <= message
    BY <1>2, JTypes, SMT
  <2>3. \A i \in 1..(n + 1) : file'.records[i].ordinal = i /\ Cmd(i)' <= popped'
    <3>1. Cmd(n + 1)' <= popped'
      BY <1>2, <1>6, <1>7, <2>2, Zenon
    <3> QED
      BY <1>4, <1>6, <2>1, <3>1, Zenon
  <2>4. ASSUME NEW i \in 1..(n + 1), NEW j \in 1..(n + 1), i < j PROVE Cmd(i)' < Cmd(j)'
    <3>1. i \in 1..n /\ (j \in 1..n \/ j = n + 1)
      BY <2>4, SMT
    <3>2. CASE j \in 1..n
      BY <1>n, <1>6, <2>4, <3>1, <3>2, Zenon DEF Numbers
    <3>3. CASE j = n + 1
      BY <1>2, <1>6, <3>1, <3>3, Zenon
    <3> QED
      BY <3>1, <3>2, <3>3, Zenon
  <2> QED
    BY <1>2, <1>6, <1>7, <2>3, <2>4, Zenon DEF Numbers
<1>11. Durable'
  <2>1. 1..durable \subseteq 1..n
    BY <1>n, JTypes, SMT
  <2>2. ASSUME NEW k \in 1..Len(reported) PROVE \E i \in 1..(n + 1) : Cmd(i)' = reported'[k]
    <3>1. PICK i \in 1..n : Cmd(i) = reported[k]
      BY <1>n, Zenon DEF Durable, Kept, Cmd
    <3> QED
      BY <1>4, <1>6, <1>7, <3>1, Zenon
  <2>3. ASSUME NEW k \in 1..promised PROVE \E i \in 1..durable : Cmd(i)' = reported'[k]
    <3>1. PICK i \in 1..durable : Cmd(i) = reported[k]
      BY Zenon DEF Durable, Kept, Cmd
    <3> QED
      BY <1>6, <1>7, <2>1, <3>1, Zenon
  <2> QED
    <3>1. Kept(reported, Len(reported), file.records, Len(file.records))'
      BY <1>6, <1>7, <2>2, Zenon DEF Kept, Cmd
    <3>2. Kept(reported, promised, file.records, durable)'
      BY <1>7, <2>3, Zenon DEF Kept, Cmd
    <3> QED
      <4>1. sync_journal' => at' \notin {"apply", "publish"}
        BY <1>7, SMT
      <4> QED
        BY <3>1, <3>2, <4>1, Zenon DEF Durable
<1> QED
  BY <1>8, <1>9, <1>10, <1>11, Zenon

LEMMA SyncedInv ==
  ASSUME JInv, at = "sync", at' = "apply", durable' = Len(file.records),
         UNCHANGED <<file, sync_journal, next_ordinal, engine, message, processed, popped, history>>
  PROVE  JInv'
<1> USE DEF JInv
<1>1. UNCHANGED <<reported, refused, promised>>
  BY Zenon DEF history
<1>2. TypeOK'
  <2>1. durable' \in 0..Len(file'.records)
    BY JTypes, SMT
  <2> QED
    BY <1>1, <2>1, Zenon DEF TypeOK, Place
<1>3. Lag'
  BY Zenon DEF Lag, Cmd
<1>4. Numbers'
  BY <1>1, Zenon DEF Numbers, Cmd
<1>5. Durable'
  <2>1. 1..promised \subseteq 1..Len(reported)
    BY JTypes, SMT
  <2>2. Kept(reported, promised, file.records, durable)'
    BY <1>1, <2>1, Zenon DEF Durable, Kept, Cmd
  <2> QED
    BY <1>1, <2>2, Zenon DEF Durable
<1> QED
  BY <1>2, <1>3, <1>4, <1>5, Zenon

LEMMA ApplyInv ==
  ASSUME JInv, Apply
  PROVE  JInv'
<1> USE DEF JInv
<1>1. /\ UNCHANGED <<file, durable, sync_journal, next_ordinal, message, processed, popped,
                     reported, refused, promised>>
      /\ at = "apply" /\ at' = "publish" /\ engine' = Append(engine, message)
  BY Zenon DEF Apply, journal, history
<1>n. PICK n \in Nat : n = Len(engine)
  BY JTypes, Zenon
<1>2. message \in Command /\ engine \in Seq(Command)
  BY <1>1, JTypes, Zenon DEF Numbers
<1>3. /\ engine' \in Seq(Command) /\ Len(engine') = n + 1 /\ engine'[n + 1] = message
      /\ (\A i \in 1..n : engine'[i] = engine[i]) /\ 1..(n + 1) = 1..n \cup {n + 1}
  BY <1>1, <1>n, <1>2, Extended, SMT
<1>4. TypeOK'
  BY <1>1, <1>3, Zenon DEF TypeOK, Place
<1>5. Lag'
  <2>1. Len(file.records) = n + 1 /\ Cmd(n + 1) = message /\ \A i \in 1..n : engine[i] = Cmd(i)
    BY <1>1, <1>n, Zenon DEF Lag
  <2>2. \A i \in 1..(n + 1) : engine'[i] = Cmd(i)
    BY <1>3, <2>1, Zenon
  <2> QED
    <3>1. \A i \in 1..Len(engine') : engine'[i] = Cmd(i)'
      BY <1>1, <1>3, <2>2, Zenon DEF Cmd
    <3>2. processed' + 1 = Len(engine') /\ Len(engine') = Len(file'.records)
      BY <1>n, <1>1, <1>3, <2>1, Zenon DEF Lag
    <3>3. file'.exists /\ next_ordinal' = Len(file'.records) + 1 /\ ~file'.torn
      BY <1>1, Zenon DEF Lag
    <3>4. Cmd(Len(file.records))' = message'
      BY <1>1, <2>1, Zenon DEF Cmd
    <3> QED
      BY <1>1, <3>1, <3>2, <3>3, <3>4, Zenon DEF Lag
<1>6. Numbers'
  BY <1>1, Zenon DEF Numbers, Cmd
<1>7. Durable'
  BY <1>1, Zenon DEF Durable
<1> QED
  BY <1>4, <1>5, <1>6, <1>7, Zenon

LEMMA PublishInv ==
  ASSUME JInv, Publish
  PROVE  JInv'
<1> USE DEF JInv
<1>1. /\ UNCHANGED <<file, durable, sync_journal, next_ordinal, engine, message, popped, refused>>
      /\ at = "publish" /\ at' = "loop" /\ reported' = Append(reported, message)
      /\ processed' = processed + 1
      /\ promised' = IF sync_journal THEN Len(reported') ELSE promised
  BY Zenon DEF Publish, journal
<1>n. PICK n \in Nat : n = Len(reported)
  BY JTypes, Zenon
<1>m. PICK m \in Nat : m = Len(file.records)
  BY JTypes, Zenon
<1>2. /\ message \in Command /\ reported \in Seq(Command) /\ message = popped
      /\ \A k \in 1..n : reported[k] < message
  BY <1>1, <1>n, JTypes, Zenon DEF Numbers
<1>3. /\ reported' \in Seq(Command) /\ Len(reported') = n + 1 /\ reported'[n + 1] = message
      /\ (\A k \in 1..n : reported'[k] = reported[k]) /\ 1..(n + 1) = 1..n \cup {n + 1}
  BY <1>1, <1>n, <1>2, Extended, SMT
<1>4. processed + 1 = Len(engine) /\ Len(engine) = m /\ Cmd(m) = message
  BY <1>1, <1>m, Zenon DEF Lag
<1>5. m \in 1..m
  BY <1>4, JTypes, SMT DEF TypeOK
<1>6. TypeOK'
  <2>1. promised' \in 0..Len(reported') /\ processed' \in Nat
    BY <1>1, <1>n, <1>3, JTypes, SMT DEF TypeOK
  <2> QED
    BY <1>1, <1>3, <2>1, Zenon DEF TypeOK, Place
<1>7. Lag'
  BY <1>1, <1>4, <1>m, Zenon DEF Lag, Cmd
<1>8. Numbers'
  <2>1. message <= message
    BY <1>2, JTypes, SMT
  <2>2. \A k \in 1..(n + 1) : reported'[k] <= popped'
    BY <1>1, <1>n, <1>2, <1>3, <2>1, Zenon DEF Numbers
  <2>3. ASSUME NEW k \in 1..(n + 1), NEW l \in 1..(n + 1), k < l PROVE reported'[k] < reported'[l]
    <3>1. k \in 1..n /\ (l \in 1..n \/ l = n + 1)
      BY <2>3, SMT
    <3>2. CASE l \in 1..n
      BY <1>n, <1>3, <2>3, <3>1, <3>2, Zenon DEF Numbers
    <3>3. CASE l = n + 1
      BY <1>2, <1>3, <3>1, <3>3, Zenon
    <3> QED
      BY <3>1, <3>2, <3>3, Zenon
  <2> QED
    BY <1>1, <1>3, <2>2, <2>3, Zenon DEF Numbers, Cmd
<1>9. Durable'
  <2>1. ASSUME NEW k \in 1..(n + 1) PROVE \E i \in 1..m : Cmd(i) = reported'[k]
    <3>1. CASE k \in 1..n
      BY <1>n, <1>m, <1>3, <3>1, Zenon DEF Durable, Kept, Cmd
    <3>2. CASE k = n + 1
      BY <1>3, <1>4, <1>5, <3>2, Zenon
    <3> QED
      BY <1>3, <3>1, <3>2, Zenon
  <2>2. Kept(reported, Len(reported), file.records, Len(file.records))'
    BY <1>1, <1>m, <1>3, <2>1, Zenon DEF Kept, Cmd
  <2>3. CASE sync_journal
    <3>1. durable' = Len(file'.records) /\ promised' = Len(reported')
      BY <1>1, <2>3, Zenon DEF Durable
    <3> QED
      BY <1>1, <2>2, <3>1, Zenon DEF Durable
  <2>4. CASE ~sync_journal
    <3>1. 1..promised \subseteq 1..n
      BY <1>n, JTypes, SMT
    <3>2. Kept(reported, promised, file.records, durable)'
      BY <1>1, <1>3, <2>4, <3>1, Zenon DEF Durable, Kept, Cmd
    <3> QED
      BY <1>1, <2>2, <2>4, <3>2, Zenon DEF Durable
  <2> QED
    BY <2>3, <2>4, Zenon
<1> QED
  BY <1>6, <1>7, <1>8, <1>9, Zenon

\* Every step keeps the invariant.
LEMMA JStep == JInv /\ [Next]_vars => JInv'
<1> SUFFICES ASSUME JInv, [Next]_vars PROVE JInv'
  OBVIOUS
<1>1. CASE Write
  <2>1. CASE at \in {"write", "rest"} /\ AppendFails
    BY <2>1, AppendFailsInv, Zenon
  <2> QED
    BY <1>1, <2>1, TornInv, WrittenInv, Zenon DEF Write
<1>2. CASE Sync
  <2>1. CASE at = "sync" /\ AppendFails
    BY <2>1, AppendFailsInv, Zenon
  <2> QED
    BY <1>2, <2>1, SyncedInv, Zenon DEF Sync
<1>3. CASE RecoveryFails \/ UNCHANGED vars
  <2>1. /\ UNCHANGED <<file, durable, sync_journal, next_ordinal, engine, message, processed>>
        /\ UNCHANGED <<popped, reported, refused, promised, at>>
    BY <1>3, Zenon DEF RecoveryFails, vars, journal, history
  <2> QED
    BY <2>1, Zenon DEF JInv, TypeOK, Lag, Numbers, Durable, Cmd
<1> QED
  BY <1>1, <1>2, <1>3, StartFreshInv, StartRecoverInv, IdleInv, EndInv, PowerLossInv, ApplyInv,
     PublishInv, Zenon DEF Next

\* The engine that serves has applied exactly what its journal holds, up to the
\* command in hand.
THEOREM WriteAheadHolds == Spec => []WriteAhead
BY JInitInv, JStep, JInvImplies, PTL DEF Spec

\* Ordinals never repeat or skip.
THEOREM OrdinalsHold == Spec => []OrdinalsContiguous
BY JInitInv, JStep, JInvImplies, PTL DEF Spec

\* No published report is lost, within what the mode of the journal promises.
THEOREM ReportsHold == Spec => []ReportedSurvive
BY JInitInv, JStep, JInvImplies, PTL DEF Spec
-----------------------------------------------------------------------------
(* The process around the journal *)

Stages == SUBSET (Initialised \cup {"producer_done"})

\* A queue holds commands in the order they were sent, n of them in all.
QueueOf(q, n) == Increasing(q) /\ \A k \in DOMAIN q : q[k] \in 1..n
Later(q, n) == \A k \in DOMAIN q : n < q[k]

Sent ==
  /\ order_of \in Seq(Nat) /\ Len(order_of) <= MaxCommands
  /\ popped \in 0..Len(order_of)
  /\ order_queue \in Seq(Seq(Nat)) /\ Len(order_queue) = Len(regions)
  /\ mine \in 0..Len(regions) /\ path \in 0..Len(regions)
  /\ \A i \in 1..Len(regions) : QueueOf(order_queue[i], Len(order_of))
  /\ mine # 0 => Later(order_queue[mine], popped)

\* Nothing is READY too early; and how far the region of an engine that starts
\* has got.
Booting ==
  /\ regions \in Seq(Stages)
  /\ \A i \in 1..Len(regions) : "ready" \in regions[i] => Initialised \subseteq regions[i]
  /\ boot # "none" => at = "boot"
  /\ boot = "create" => path = 0
  /\ boot \in {"size", "construct", "header", "ready"} => mine # 0 /\ "ready" \notin regions[mine]
  /\ boot \in {"header", "ready"} => Fresh \subseteq regions[mine]
  /\ boot = "ready" => "header" \in regions[mine]
  /\ at \notin {"down", "boot"} => mine # 0

Attached ==
  /\ feed.at \in {"poll", "check", "push"} => feed.region \in 1..Len(regions)
  /\ feed.at \in {"check", "push"} => "ready" \in regions[feed.region]
  /\ feed.next \in Nat

PInv == Sent /\ Booting /\ Attached

\* What was READY stays READY, and no region goes away.
Grown ==
  /\ Len(regions) <= Len(regions') /\ Len(regions') \in Nat
  /\ \A i \in 1..Len(regions) : "ready" \in regions[i] => "ready" \in regions'[i]

LEMMA PTypes ==
  ASSUME PInv
  PROVE  /\ Len(regions) \in Nat /\ Len(order_of) \in Nat /\ popped \in Nat
         /\ regions \in Seq(Stages) /\ DOMAIN regions = 1..Len(regions)
         /\ order_of \in Seq(Nat) /\ order_queue \in Seq(Seq(Nat))
         /\ Len(order_queue) = Len(regions)
         /\ mine # 0 => mine \in 1..Len(regions)
         /\ path # 0 => path \in 1..Len(regions)
<1>1. regions \in Seq(Stages) /\ order_of \in Seq(Nat) /\ mine \in 0..Len(regions)
      /\ path \in 0..Len(regions) /\ popped \in 0..Len(order_of)
      /\ order_queue \in Seq(Seq(Nat)) /\ Len(order_queue) = Len(regions)
  BY Zenon DEF PInv, Booting, Sent
<1> QED
  BY <1>1, SMT

LEMMA PInvImplies == PInv => HandshakeSound
BY PTypes, Zenon DEF PInv, Booting, Attached, HandshakeSound

LEMMA PInitInv == ProcessInit => PInv
<1> SUFFICES ASSUME ProcessInit PROVE PInv
  OBVIOUS
<1>1. regions = << >> /\ path = 0 /\ mine = 0 /\ boot = "none" /\ feed.at = "off" /\ order_of = << >>
      /\ popped = 0 /\ at = "down" /\ order_queue = << >> /\ feed.next = 1
  BY Zenon DEF ProcessInit, Init, NoFeed, Feed
<1>2. Len(<< >>) = 0 /\ << >> \in Seq(Nat) /\ << >> \in Seq(Stages) /\ << >> \in Seq(Seq(Nat))
      /\ 0 \in 0..0 /\ 1..0 = {} /\ 0 <= MaxCommands /\ 1 \in Nat
  BY JournalAssumption, SMT
<1> QED
  BY <1>1, <1>2, Zenon DEF PInv, Sent, Booting, Attached

LEMMA StillAttached ==
  ASSUME PInv, feed' = feed, Grown
  PROVE  Attached'
<1>1. 1..Len(regions) \subseteq 1..Len(regions')
  BY PTypes, SMT DEF Grown
<1> QED
  BY <1>1, Zenon DEF PInv, Attached, Grown

\* Stages added to a region.
LEMMA Marked ==
  ASSUME PInv, NEW x \in 1..Len(regions), NEW r \in Stages, regions' = [regions EXCEPT ![x] = r]
  PROVE  /\ regions' \in Seq(Stages) /\ Len(regions') = Len(regions) /\ regions'[x] = r
         /\ \A i \in 1..Len(regions) : i # x => regions'[i] = regions[i]
BY PTypes, SMT

LEMMA QueueUpdate ==
  ASSUME PInv, NEW x \in 1..Len(regions), NEW q \in Seq(Nat), order_queue' = [order_queue EXCEPT ![x] = q]
  PROVE  /\ order_queue' \in Seq(Seq(Nat)) /\ Len(order_queue') = Len(regions) /\ order_queue'[x] = q
         /\ \A i \in 1..Len(regions) : i # x => order_queue'[i] = order_queue[i]
BY PTypes, SMT

\* Steps of the engine's start that touch its region's stages only.
LEMMA MarkInv ==
  ASSUME PInv, NEW x \in 1..Len(regions), NEW stage \in Initialised \cup {"producer_done"},
         Mark(x, stage)
  PROVE  /\ regions' \in Seq(Stages) /\ Len(regions') = Len(regions)
         /\ regions'[x] = regions[x] \cup {stage}
         /\ \A i \in 1..Len(regions) : i # x => regions'[i] = regions[i]
         /\ stage # "ready" => Grown /\ \A i \in 1..Len(regions) :
               "ready" \in regions'[i] => Initialised \subseteq regions'[i]
         /\ Grown
<1>1. regions[x] \in Stages
  BY PTypes, SMT
<1>2. regions[x] \cup {stage} \in Stages
  BY <1>1, Zenon DEF Stages
<1>3. regions' = [regions EXCEPT ![x] = regions[x] \cup {stage}]
  BY PTypes, Zenon DEF Mark
<1>4. /\ regions' \in Seq(Stages) /\ Len(regions') = Len(regions)
      /\ regions'[x] = regions[x] \cup {stage}
      /\ \A i \in 1..Len(regions) : i # x => regions'[i] = regions[i]
  BY <1>2, <1>3, Marked, Zenon
<1>5. Len(regions) <= Len(regions)
  BY PTypes, SMT
<1>6. Grown
  BY <1>4, <1>5, PTypes, Zenon DEF Grown
<1>7. ASSUME stage # "ready", NEW i \in 1..Len(regions), "ready" \in regions'[i]
      PROVE  Initialised \subseteq regions'[i]
  BY <1>4, <1>7, Zenon DEF PInv, Booting
<1> QED
  BY <1>4, <1>6, <1>7, Zenon

\* Sent does not depend on the stages.
LEMMA SentKept ==
  ASSUME PInv, Len(regions') = Len(regions), path' \in {0, path},
         UNCHANGED <<order_of, popped, order_queue, mine>>
  PROVE  Sent'
<1>1. path' \in 0..Len(regions)
  BY PTypes, SMT DEF PInv, Sent
<1> QED
  BY <1>1, Zenon DEF PInv, Sent

\* Steps of the engine that leave all regions alone.
LEMMA QuietInv ==
  ASSUME PInv, UNCHANGED <<regions, order_queue, mine, order_of, popped>>,
         path' \in {0, path}, UNCHANGED feed \/ feed' = NoFeed,
         boot' \in {"none", "remove", boot} \/ (boot' = "create" /\ path' = 0),
         boot' # "none" => at' = "boot",
         at' \notin {"down", "boot"} => at \notin {"down", "boot"} \/ boot = "ready"
  PROVE  PInv'
<1>1. Sent'
  BY SentKept, Zenon
<1>2. Booting'
  BY Zenon DEF PInv, Booting
<1>3. Attached'
  <2>1. CASE feed' = NoFeed
    BY <2>1, SMT DEF Attached, NoFeed, Feed
  <2> QED
    BY <2>1, Zenon DEF PInv, Attached
<1> QED
  BY <1>1, <1>2, <1>3, Zenon DEF PInv

LEMMA createInv ==
  ASSUME PInv, create
  PROVE  PInv'
<1>n. PICK n \in Nat : n = Len(regions)
  BY PTypes, Zenon
<1>1. /\ path = 0 /\ boot' = "size" /\ at = "boot" /\ at' = at /\ popped' = popped
      /\ regions' = Append(regions, {}) /\ order_queue' = Append(order_queue, << >>)
      /\ path' = n + 1 /\ mine' = n + 1 /\ feed' = feed /\ order_of' = order_of
  BY <1>n, Zenon DEF PInv, Booting, create, vars
<1>2. {} \in Stages /\ regions \in Seq(Stages) /\ order_queue \in Seq(Seq(Nat)) /\ Len(order_queue) = n
  BY <1>n, PTypes, Zenon DEF Stages
<1>3. /\ regions' \in Seq(Stages) /\ Len(regions') = n + 1 /\ regions'[n + 1] = {}
      /\ (\A i \in 1..n : regions'[i] = regions[i]) /\ 1..(n + 1) = 1..n \cup {n + 1}
  BY <1>1, <1>2, <1>n, Extended, SMT
<1>4. << >> \in Seq(Nat) /\ DOMAIN << >> = {}
  BY SMT
<1>5. /\ order_queue' \in Seq(Seq(Nat)) /\ Len(order_queue') = n + 1 /\ order_queue'[n + 1] = << >>
      /\ \A i \in 1..n : order_queue'[i] = order_queue[i]
  BY <1>1, <1>2, <1>4, Extended, SMT
<1>6. Grown
  <2>1. n <= n + 1 /\ n + 1 \in Nat
    BY SMT
  <2> QED
    BY <1>n, <1>3, <2>1, Zenon DEF Grown
<1>7. Sent'
  <2>1. \A i \in 1..n : QueueOf(order_queue[i], Len(order_of))
    BY <1>n, Zenon DEF PInv, Sent
  <2>2. \A i \in 1..(n + 1) : QueueOf(order_queue'[i], Len(order_of))
    BY <1>3, <1>4, <1>5, <2>1, Zenon DEF QueueOf, Increasing
  <2>3. Later(order_queue'[mine'], popped')
    BY <1>1, <1>4, <1>5, Zenon DEF Later
  <2>4. mine' \in 0..(n + 1) /\ path' \in 0..(n + 1)
    BY <1>1, SMT
  <2> QED
    BY <1>1, <1>3, <1>5, <2>2, <2>3, <2>4, Zenon DEF PInv, Sent
<1>8. Booting'
  <2>1. mine' # 0
    BY <1>1, SMT
  <2>2. \A i \in 1..(n + 1) : "ready" \in regions'[i] => Initialised \subseteq regions'[i]
    BY <1>n, <1>3, Zenon DEF PInv, Booting
  <2> QED
    BY <1>1, <1>3, <2>1, <2>2, Zenon DEF Booting
<1>9. Attached'
  BY <1>1, <1>6, StillAttached, Zenon
<1> QED
  BY <1>7, <1>8, <1>9, Zenon DEF PInv

LEMMA ftruncateInv ==
  ASSUME PInv, ftruncate
  PROVE  PInv'
<1>1. /\ boot = "size" /\ boot' = "construct" /\ Mark(mine, "sized") /\ at = "boot" /\ at' = at
      /\ UNCHANGED <<path, order_queue, mine, feed, order_of, popped>>
  BY Zenon DEF PInv, Booting, ftruncate, vars
<1>2. mine \in 1..Len(regions) /\ mine # 0 /\ "ready" \notin regions[mine]
  BY <1>1, PTypes, Zenon DEF PInv, Booting
<1>3. "sized" \in Initialised \cup {"producer_done"} /\ "sized" # "ready"
  BY Zenon DEF Initialised
<1>4. /\ regions' \in Seq(Stages) /\ Len(regions') = Len(regions)
      /\ regions'[mine] = regions[mine] \cup {"sized"} /\ Grown
      /\ \A i \in 1..Len(regions) : "ready" \in regions'[i] => Initialised \subseteq regions'[i]
  BY <1>1, <1>2, <1>3, MarkInv, Zenon
<1>5. Booting'
  BY <1>1, <1>2, <1>4, Zenon DEF Booting
<1> QED
  BY <1>1, <1>4, <1>5, SentKept, StillAttached, Zenon DEF PInv

LEMMA StoreHeaderInv ==
  ASSUME PInv, StoreHeader
  PROVE  PInv'
<1>1. /\ boot = "header" /\ boot' = "ready" /\ Mark(mine, "header") /\ at = "boot" /\ at' = at
      /\ UNCHANGED <<path, order_queue, mine, feed, order_of, popped>>
  BY Zenon DEF PInv, Booting, StoreHeader, vars
<1>2. /\ mine \in 1..Len(regions) /\ mine # 0 /\ "ready" \notin regions[mine]
      /\ Fresh \subseteq regions[mine]
  BY <1>1, PTypes, Zenon DEF PInv, Booting
<1>3. "header" \in Initialised \cup {"producer_done"} /\ "header" # "ready"
  BY Zenon DEF Initialised
<1>4. /\ regions' \in Seq(Stages) /\ Len(regions') = Len(regions)
      /\ regions'[mine] = regions[mine] \cup {"header"} /\ Grown
      /\ \A i \in 1..Len(regions) : "ready" \in regions'[i] => Initialised \subseteq regions'[i]
  BY <1>1, <1>2, <1>3, MarkInv, Zenon
<1>5. Booting'
  BY <1>1, <1>2, <1>4, Zenon DEF Booting
<1> QED
  BY <1>1, <1>4, <1>5, SentKept, StillAttached, Zenon DEF PInv

LEMMA ReadyInv ==
  ASSUME PInv, Ready
  PROVE  PInv'
<1>1. /\ boot = "ready" /\ boot' = "none" /\ Mark(mine, "ready") /\ at' = "loop"
      /\ UNCHANGED <<path, order_queue, mine, feed, order_of, popped>>
  BY Zenon DEF Ready, Serve
<1>2. /\ mine \in 1..Len(regions) /\ mine # 0 /\ "header" \in regions[mine]
      /\ Fresh \subseteq regions[mine]
  BY <1>1, PTypes, Zenon DEF PInv, Booting
<1>3. "ready" \in Initialised \cup {"producer_done"}
  BY Zenon DEF Initialised
<1>4. /\ regions' \in Seq(Stages) /\ Len(regions') = Len(regions)
      /\ regions'[mine] = regions[mine] \cup {"ready"} /\ Grown
      /\ \A i \in 1..Len(regions) : i # mine => regions'[i] = regions[i]
  BY <1>1, <1>2, <1>3, MarkInv, Zenon
<1>5. Initialised \subseteq regions'[mine]
  BY <1>2, <1>4, Zenon DEF Initialised, Fresh
<1>6. \A i \in 1..Len(regions) : "ready" \in regions'[i] => Initialised \subseteq regions'[i]
  BY <1>4, <1>5, Zenon DEF PInv, Booting
<1>7. Booting'
  BY <1>1, <1>2, <1>4, <1>6, Zenon DEF Booting
<1> QED
  BY <1>1, <1>4, <1>7, SentKept, StillAttached, Zenon DEF PInv

LEMMA ConstructInv ==
  ASSUME PInv, Construct
  PROVE  PInv'
<1>1. /\ boot = "construct" /\ boot' = "header" /\ at = "boot" /\ at' = at
      /\ regions' = [regions EXCEPT ![mine] = Fresh]
      /\ order_queue' = [order_queue EXCEPT ![mine] = << >>]
      /\ UNCHANGED <<path, mine, feed, order_of, popped>>
  BY Zenon DEF PInv, Booting, Construct, vars
<1>2. mine \in 1..Len(regions) /\ mine # 0 /\ "ready" \notin regions[mine]
  BY <1>1, PTypes, Zenon DEF PInv, Booting
<1>3. Fresh \in Stages /\ "ready" \notin Fresh
  BY Zenon DEF Fresh, Stages, Initialised
<1>4. /\ regions' \in Seq(Stages) /\ Len(regions') = Len(regions) /\ regions'[mine] = Fresh
      /\ \A i \in 1..Len(regions) : i # mine => regions'[i] = regions[i]
  BY <1>1, <1>2, <1>3, Marked, Zenon
<1>5. << >> \in Seq(Nat) /\ DOMAIN << >> = {}
  BY SMT
<1>6. /\ order_queue' \in Seq(Seq(Nat)) /\ Len(order_queue') = Len(regions) /\ order_queue'[mine] = << >>
      /\ \A i \in 1..Len(regions) : i # mine => order_queue'[i] = order_queue[i]
  BY <1>1, <1>2, <1>5, QueueUpdate, Zenon
<1>7. Sent'
  <2>1. \A i \in 1..Len(regions) : QueueOf(order_queue'[i], Len(order_of))
    BY <1>5, <1>6, Zenon DEF PInv, Sent, QueueOf, Increasing
  <2>2. Later(order_queue'[mine], popped)
    BY <1>5, <1>6, Zenon DEF Later
  <2> QED
    BY <1>1, <1>4, <1>6, <2>1, <2>2, Zenon DEF PInv, Sent
<1>8. Booting'
  <2>1. \A i \in 1..Len(regions) : "ready" \in regions'[i] => Initialised \subseteq regions'[i]
    BY <1>3, <1>4, Zenon DEF PInv, Booting
  <2> QED
    BY <1>1, <1>2, <1>3, <1>4, <2>1, Zenon DEF Booting
<1>9. Grown
  <2>1. Len(regions) <= Len(regions) /\ Len(regions) \in Nat
    BY PTypes, SMT
  <2> QED
    BY <1>2, <1>4, <2>1, Zenon DEF Grown
<1> QED
  BY <1>1, <1>7, <1>8, <1>9, StillAttached, Zenon DEF PInv

LEMMA QueueTail ==
  ASSUME NEW q \in Seq(Nat), q # << >>, NEW n, QueueOf(q, n)
  PROVE  /\ Head(q) \in 1..n /\ Tail(q) \in Seq(Nat)
         /\ QueueOf(Tail(q), n) /\ Later(Tail(q), Head(q))
<1>1. /\ Tail(q) \in Seq(Nat) /\ DOMAIN q = 1..Len(q) /\ Len(q) \in Nat /\ 1 \in 1..Len(q)
      /\ Head(q) = q[1] /\ DOMAIN Tail(q) = 1..(Len(q) - 1)
      /\ \A k \in 1..(Len(q) - 1) : Tail(q)[k] = q[k + 1]
  BY SMT
<1>2. \A k \in 1..(Len(q) - 1) : k + 1 \in 1..Len(q) /\ 1 < k + 1 /\ k \in Nat
  BY <1>1, SMT
<1>3. \A k, l \in 1..(Len(q) - 1) : k < l => k + 1 < l + 1
  BY <1>1, SMT
<1> QED
  BY <1>1, <1>2, <1>3, Zenon DEF QueueOf, Later, Increasing

LEMMA PopInv ==
  ASSUME PInv, Pop
  PROVE  PInv' /\ \E n \in Command : n > popped /\ PopCommand(n)
<1> DEFINE q == order_queue[mine]
           n == Head(q)
<1>1. /\ at = "loop" /\ q # << >> /\ PopCommand(n)
      /\ order_queue' = [order_queue EXCEPT ![mine] = Tail(q)]
      /\ UNCHANGED <<path, regions, boot, mine, feed, order_of>>
  BY PTypes, Zenon DEF Pop
<1>2. mine \in 1..Len(regions) /\ mine # 0
  BY <1>1, PTypes, Zenon DEF PInv, Booting
<1>3. q \in Seq(Nat) /\ QueueOf(q, Len(order_of)) /\ Later(q, popped)
  <2>1. q \in Seq(Nat)
    BY <1>2, PTypes, SMT
  <2> QED
    BY <1>2, <2>1, Zenon DEF PInv, Sent
<1>4. n \in 1..Len(order_of) /\ Tail(q) \in Seq(Nat) /\ QueueOf(Tail(q), Len(order_of)) /\ Later(Tail(q), n)
  BY <1>1, <1>3, QueueTail, Zenon
<1>5. popped < n
  <2>1. 1 \in DOMAIN q /\ n = q[1]
    BY <1>1, <1>3, SMT
  <2> QED
    BY <1>3, <2>1, Zenon DEF Later
<1>6. at' = "write" /\ popped' = n
  BY <1>1, Zenon DEF PopCommand
<1>7. /\ order_queue' \in Seq(Seq(Nat)) /\ Len(order_queue') = Len(regions) /\ order_queue'[mine] = Tail(q)
      /\ \A i \in 1..Len(regions) : i # mine => order_queue'[i] = order_queue[i]
  BY <1>1, <1>2, <1>4, QueueUpdate, Zenon
<1> HIDE DEF n, q
<1>8. Sent'
  <2>1. \A i \in 1..Len(regions) : QueueOf(order_queue'[i], Len(order_of))
    BY <1>4, <1>7, Zenon DEF PInv, Sent
  <2>2. n \in 0..Len(order_of)
    BY <1>4, PTypes, SMT
  <2> QED
    BY <1>1, <1>4, <1>6, <1>7, <2>1, <2>2, Zenon DEF PInv, Sent
<1>9. Booting'
  <2>1. boot = "none"
    BY <1>1, Zenon DEF PInv, Booting
  <2> QED
    BY <1>1, <1>2, <1>6, <2>1, Zenon DEF PInv, Booting
<1>10. Attached'
  BY <1>1, Zenon DEF PInv, Attached
<1>11. n \in Command /\ n > popped
  BY <1>4, <1>5, PTypes, JournalAssumption, SMT DEF PInv, Sent, Command
<1> QED
  BY <1>1, <1>8, <1>9, <1>10, <1>11, Zenon DEF PInv

LEMMA WorkInv ==
  ASSUME PInv, Work
  PROVE  PInv'
<1>1. UNCHANGED <<path, regions, order_queue, boot, mine, feed, order_of>>
  BY Zenon DEF Work, region_vars
<1>2. popped' = popped
  BY Zenon DEF Work, RecoveryFails, vars, Stop, Write, Sync, AppendFails, Apply, Publish, Exit
<1>3. at' = at \/ at \notin {"down", "boot"}
  BY Zenon DEF Work, RecoveryFails, vars, Stop, Write, Sync, Apply, Publish, Exit
<1>4. boot' # "none" => at' = "boot"
  BY <1>1, <1>3, Zenon DEF PInv, Booting
<1> QED
  BY <1>1, <1>2, <1>3, <1>4, QuietInv, Zenon

\* The engine starts, ends or dies, and the tool removes the path.
LEMMA LifeInv ==
  ASSUME PInv, Start \/ remove_file \/ Die \/ Reboot \/ cleanup_shared_memory
  PROVE  PInv'
<1>1. UNCHANGED <<regions, order_queue, mine, order_of>>
  BY Zenon DEF Start, remove_file, Die, Reboot, cleanup_shared_memory
<1>2. popped' = popped
  BY Zenon DEF Start, remove_file, Die, Reboot, cleanup_shared_memory, StartFresh, StartRecover,
               Crash, PowerLoss, vars
<1>3. path' \in {0, path} /\ (UNCHANGED feed \/ feed' = NoFeed)
  BY Zenon DEF Start, remove_file, Die, Reboot, cleanup_shared_memory
<1>4. CASE Start
  <2>1. at' = "boot" /\ boot' = "remove"
    BY <1>4, Zenon DEF Start, StartFresh, StartRecover
  <2> QED
    BY <1>1, <1>2, <1>3, <2>1, QuietInv, Zenon
<1>5. CASE Die \/ Reboot
  <2>1. at' = "down" /\ boot' = "none"
    BY <1>5, Zenon DEF Die, Reboot, Crash, PowerLoss, Gone
  <2> QED
    BY <1>1, <1>2, <1>3, <2>1, QuietInv, Zenon
<1>6. CASE remove_file
  <2>1. at' = at /\ boot = "remove" /\ boot' = "create" /\ path' = 0
    BY <1>6, Zenon DEF remove_file, vars
  <2> QED
    BY <1>1, <1>2, <1>3, <2>1, QuietInv, Zenon DEF PInv, Booting
<1>7. CASE cleanup_shared_memory
  <2>1. at' = at /\ boot' = boot
    BY <1>7, Zenon DEF cleanup_shared_memory, vars
  <2> QED
    BY <1>1, <1>2, <1>3, <2>1, QuietInv, Zenon DEF PInv, Booting
<1> QED
  BY <1>4, <1>5, <1>6, <1>7, Zenon

\* The feed looks at a region.
LEMMA FeedInv ==
  ASSUME PInv, StartFeed \/ OpenRegion \/ SeeReady \/ CheckProtocol \/ FeedDies
  PROVE  PInv'
<1>1. UNCHANGED <<path, regions, order_queue, boot, mine, order_of, popped, at>>
  BY Zenon DEF StartFeed, OpenRegion, SeeReady, CheckProtocol, FeedDies, vars
<1>2. Sent' /\ Booting'
  BY <1>1, Zenon DEF PInv, Sent, Booting
<1>3. Attached'
  <2>0. feed'.next = 1 /\ 1 \in Nat
    BY SMT DEF StartFeed, OpenRegion, SeeReady, CheckProtocol, FeedDies, NoFeed, Feed
  <2>1. CASE feed'.at \in {"off", "open"}
    BY <2>0, <2>1, Zenon DEF Attached
  <2>2. CASE feed'.at = "poll" /\ feed'.region = path /\ path # 0
    BY <1>1, <2>0, <2>2, PTypes, Zenon DEF Attached
  <2>3. CASE feed'.region = feed.region /\ feed.at = "poll" /\ "ready" \in regions[feed.region]
    BY <1>1, <2>0, <2>3, Zenon DEF PInv, Attached
  <2>4. CASE feed'.region = feed.region /\ feed.at = "check"
    BY <1>1, <2>0, <2>4, Zenon DEF PInv, Attached
  <2>5. CASE StartFeed \/ FeedDies
    <3>1. feed'.at \in {"off", "open"}
      BY <2>5, SMT DEF StartFeed, FeedDies, NoFeed, Feed
    <3> QED
      BY <2>1, <3>1, Zenon
  <2>6. CASE OpenRegion
    <3>1. feed'.at \in {"off", "open"} \/ (feed'.at = "poll" /\ feed'.region = path /\ path # 0)
      BY <2>6, SMT DEF OpenRegion, NoFeed, Feed
    <3> QED
      BY <2>1, <2>2, <3>1, Zenon
  <2>7. CASE SeeReady
    <3>1. feed'.region = feed.region /\ feed.at = "poll" /\ "ready" \in regions[feed.region]
      BY <2>7, SMT DEF SeeReady, Feed
    <3> QED
      BY <2>3, <3>1, Zenon
  <2>8. CASE CheckProtocol
    <3>1. feed'.at = "off" \/ (feed'.region = feed.region /\ feed.at = "check")
      BY <2>8, SMT DEF CheckProtocol, NoFeed, Feed
    <3> QED
      BY <2>1, <2>4, <3>1, Zenon
  <2> QED
    BY <2>5, <2>6, <2>7, <2>8, Zenon
<1> QED
  BY <1>2, <1>3, Zenon DEF PInv

\* The feed writes to a region.
LEMMA FeedDoneInv ==
  ASSUME PInv, FeedDone
  PROVE  PInv'
<1>1. /\ feed.at = "push" /\ Mark(feed.region, "producer_done") /\ feed' = NoFeed
      /\ UNCHANGED <<path, order_queue, boot, mine, order_of, popped, at>>
  BY Zenon DEF FeedDone, vars
<1>2. feed.region \in 1..Len(regions)
  BY <1>1, Zenon DEF PInv, Attached
<1>3. "producer_done" \in Initialised \cup {"producer_done"} /\ "producer_done" # "ready"
  BY Zenon
<1>4. /\ regions' \in Seq(Stages) /\ Len(regions') = Len(regions)
      /\ regions'[feed.region] = regions[feed.region] \cup {"producer_done"}
      /\ \A i \in 1..Len(regions) : i # feed.region => regions'[i] = regions[i]
      /\ \A i \in 1..Len(regions) : "ready" \in regions'[i] => Initialised \subseteq regions'[i]
  BY <1>1, <1>2, <1>3, MarkInv, Zenon
<1>5. ASSUME NEW i \in 1..Len(regions)
      PROVE  regions[i] \subseteq regions'[i] /\ ("ready" \in regions'[i] => "ready" \in regions[i])
  BY <1>4, SMT
<1>6. Booting'
  <2>1. boot \in {"size", "construct", "header", "ready"} => mine # 0 /\ "ready" \notin regions'[mine]
    BY <1>5, PTypes, Zenon DEF PInv, Booting
  <2>2. boot \in {"header", "ready"} => Fresh \subseteq regions'[mine]
    BY <1>5, PTypes, Zenon DEF PInv, Booting
  <2>3. boot = "ready" => "header" \in regions'[mine]
    BY <1>5, PTypes, Zenon DEF PInv, Booting
  <2> QED
    BY <1>1, <1>4, <2>1, <2>2, <2>3, Zenon DEF PInv, Booting
<1>7. Attached'
  BY <1>1, SMT DEF Attached, NoFeed, Feed
<1> QED
  BY <1>1, <1>4, <1>6, <1>7, SentKept, Zenon DEF PInv

LEMMA QueueAppend ==
  ASSUME NEW n \in Nat, NEW q \in Seq(Nat), QueueOf(q, n)
  PROVE  /\ Append(q, n + 1) \in Seq(Nat) /\ QueueOf(Append(q, n + 1), n + 1)
         /\ \A p \in 0..n : Later(q, p) => Later(Append(q, n + 1), p)
<1>m. PICK m \in Nat : m = Len(q)
  BY SMT
<1>1. /\ Append(q, n + 1) \in Seq(Nat) /\ DOMAIN q = 1..m /\ DOMAIN Append(q, n + 1) = 1..(m + 1)
      /\ Append(q, n + 1)[m + 1] = n + 1 /\ (\A k \in 1..m : Append(q, n + 1)[k] = q[k])
      /\ 1..(m + 1) = 1..m \cup {m + 1}
  BY <1>m, SMT
<1>2. \A k \in 1..m : q[k] \in 1..(n + 1) /\ q[k] < n + 1
  BY <1>1, SMT DEF QueueOf
<1>3. n + 1 \in 1..(n + 1)
  BY SMT
<1>4. \A k \in 1..(m + 1) : Append(q, n + 1)[k] \in 1..(n + 1)
  BY <1>1, <1>2, <1>3, Zenon
<1>5. ASSUME NEW k \in 1..(m + 1), NEW l \in 1..(m + 1), k < l
      PROVE  Append(q, n + 1)[k] < Append(q, n + 1)[l]
  <2>1. k \in 1..m /\ (l \in 1..m \/ l = m + 1)
    BY <1>5, SMT
  <2>2. CASE l \in 1..m
    BY <1>1, <1>5, <2>1, <2>2, Zenon DEF QueueOf, Increasing
  <2>3. CASE l = m + 1
    BY <1>1, <1>2, <2>1, <2>3, Zenon
  <2> QED
    BY <2>1, <2>2, <2>3, Zenon
<1>6. ASSUME NEW p \in 0..n, Later(q, p) PROVE Later(Append(q, n + 1), p)
  <2>1. p < n + 1
    BY SMT
  <2> QED
    BY <1>1, <1>6, <2>1, Zenon DEF Later
<1> QED
  BY <1>1, <1>4, <1>5, <1>6, Zenon DEF QueueOf, Increasing

LEMMA sendOrderInv ==
  ASSUME PInv, sendOrder
  PROVE  PInv'
<1>n. PICK n \in Nat : n = Len(order_of)
  BY PTypes, Zenon
<1>x. PICK x \in 1..Len(regions) : x = feed.region
  BY Zenon DEF PInv, Attached, sendOrder
<1>1. /\ feed.at = "push" /\ n < MaxCommands /\ order_of' = Append(order_of, feed.next)
      /\ order_queue' = [order_queue EXCEPT ![x] = Append(order_queue[x], n + 1)]
      /\ feed' = Feed("push", feed.region, 0, feed.next + 1)
      /\ UNCHANGED <<path, regions, boot, mine, popped, at>>
  BY <1>n, <1>x, PTypes, Zenon DEF sendOrder, vars
<1>2. order_queue[x] \in Seq(Nat) /\ QueueOf(order_queue[x], n)
  <2>1. order_queue[x] \in Seq(Nat)
    BY PTypes, SMT
  <2> QED
    BY <1>n, <2>1, Zenon DEF PInv, Sent
<1>3. /\ Append(order_queue[x], n + 1) \in Seq(Nat) /\ QueueOf(Append(order_queue[x], n + 1), n + 1)
      /\ \A p \in 0..n : Later(order_queue[x], p) => Later(Append(order_queue[x], n + 1), p)
  BY <1>2, QueueAppend, Zenon
<1>4. /\ order_queue' \in Seq(Seq(Nat)) /\ Len(order_queue') = Len(regions)
      /\ order_queue'[x] = Append(order_queue[x], n + 1)
      /\ \A i \in 1..Len(regions) : i # x => order_queue'[i] = order_queue[i]
  BY <1>1, <1>3, QueueUpdate, Zenon
<1>f. feed.next \in Nat
  BY Zenon DEF PInv, Attached
<1>5. order_of' \in Seq(Nat) /\ Len(order_of') = n + 1 /\ n + 1 <= MaxCommands
  BY <1>n, <1>1, <1>f, PTypes, JournalAssumption, SMT DEF PInv, Sent
<1>6. \A q : QueueOf(q, n) => QueueOf(q, n + 1)
  <2>1. 1..n \subseteq 1..(n + 1)
    BY SMT
  <2> QED
    BY <2>1, Zenon DEF QueueOf
<1>7. Sent'
  <2>1. \A i \in 1..Len(regions) : QueueOf(order_queue'[i], n + 1)
    BY <1>n, <1>3, <1>4, <1>6, Zenon DEF PInv, Sent
  <2>2. popped \in 0..n /\ popped \in 0..(n + 1)
    BY <1>n, SMT DEF PInv, Sent
  <2>3. mine # 0 => Later(order_queue'[mine], popped)
    BY <1>3, <1>4, <2>2, PTypes, Zenon DEF PInv, Sent
  <2> QED
    BY <1>1, <1>4, <1>5, <2>1, <2>2, <2>3, Zenon DEF PInv, Sent
<1>8. Booting'
  BY <1>1, Zenon DEF PInv, Booting
<1>9. Attached'
  <2>1. feed'.region = feed.region /\ feed'.next \in Nat
    BY <1>1, <1>f, SMT DEF Feed
  <2> QED
    BY <1>1, <2>1, Zenon DEF PInv, Attached
<1> QED
  BY <1>7, <1>8, <1>9, Zenon DEF PInv

LEMMA PStep == PInv /\ [ProcessNext]_processVars => PInv' /\ [Next]_vars
<1> SUFFICES ASSUME PInv, [ProcessNext]_processVars PROVE PInv' /\ [Next]_vars
  OBVIOUS
<1>1. CASE UNCHANGED processVars
  <2>1. vars' = vars /\ UNCHANGED <<path, regions, order_queue, boot, mine, feed, order_of>>
    BY <1>1, Zenon DEF processVars, region_vars
  <2>2. popped' = popped /\ at' = at
    BY <2>1, Zenon DEF vars
  <2> QED
    BY <2>1, <2>2, Zenon DEF PInv, Sent, Booting, Attached
<1>2. CASE Start \/ Ready \/ Work \/ Die \/ Reboot
  <2>1. PInv'
    BY <1>2, LifeInv, ReadyInv, WorkInv, Zenon
  <2>2. Next
    BY <1>2, Zenon DEF Start, Ready, Work, Die, Reboot, Next
  <2> QED
    BY <2>1, <2>2, Zenon
<1>3. CASE Pop
  BY <1>3, PopInv, Zenon DEF Next
<1>4. CASE remove_file \/ create \/ ftruncate \/ Construct \/ StoreHeader \/ cleanup_shared_memory
  <2>1. PInv'
    BY <1>4, LifeInv, createInv, ftruncateInv, ConstructInv, StoreHeaderInv, Zenon
  <2>2. vars' = vars
    BY <1>4, Zenon DEF remove_file, create, ftruncate, Construct, StoreHeader, cleanup_shared_memory
  <2> QED
    BY <2>1, <2>2, Zenon
<1>5. CASE StartFeed \/ OpenRegion \/ SeeReady \/ CheckProtocol \/ sendOrder \/ FeedDone \/ FeedDies
  <2>1. PInv'
    BY <1>5, FeedInv, sendOrderInv, FeedDoneInv, Zenon
  <2>2. vars' = vars
    BY <1>5, Zenon DEF StartFeed, OpenRegion, SeeReady, CheckProtocol, sendOrder, FeedDone, FeedDies
  <2> QED
    BY <2>1, <2>2, Zenon
<1> QED
  BY <1>1, <1>2, <1>3, <1>4, <1>5, Zenon DEF ProcessNext

\* What a feed or a viewer has found READY is completely initialised and stays
\* so while it uses it, whatever dies, restarts or is removed meanwhile.
THEOREM HandshakeHolds == ProcessSpec => []HandshakeSound
BY PInitInv, PStep, PInvImplies, PTL DEF ProcessSpec

\* Around its journal the composed system is the journaled engine: the queue of
\* a region hands it every command at most once and in the order sent, over any
\* number of regions.
THEOREM ProcessImplementsJournal == ProcessSpec => Spec
<1>1. ProcessInit => Init
  BY Zenon DEF ProcessInit
<1> QED
  BY <1>1, PInitInv, PStep, PTL DEF ProcessSpec, Spec

\* Hence the three properties of the journal hold of the processes.
THEOREM ProcessKeepsJournal == ProcessSpec => [](WriteAhead /\ OrdinalsContiguous /\ ReportedSurvive)
BY ProcessImplementsJournal, WriteAheadHolds, OrdinalsHold, ReportsHold, PTL

-----------------------------------------------------------------------------
(* The orders of a feed that is run again *)

Serving == at \in {"loop", "write", "rest", "sync", "apply", "publish"}

\* Order o is in the journal, in the engine's hand, or among the first k of its
\* queue.
OnFile(o) == \E i \in 1..Len(file.records) : order_of[Cmd(i)] = o
InHand(o) == at \in {"write", "rest"} /\ order_of[message] = o
Waiting(q, k, o) == \E l \in 1..k : order_of[q[l]] = o
Ahead(k, o) == OnFile(o) \/ InHand(o) \/ Waiting(order_queue[mine], k, o)

\* The feed numbers its orders 1, 2, 3...
Numbered ==
  /\ \A n \in 1..Len(order_of) : order_of[n] \in 1..Orders
  /\ feed.next \in Nat \ {0}

\* Before an order come all that are smaller: in the journal, ...
Filed ==
  \A i \in 1..Len(file.records) : \A o \in 1..(order_of[Cmd(i)] - 1) :
    \E j \in 1..(i - 1) : order_of[Cmd(j)] = o

\* ... before the one in hand, ...
Held == at \in {"write", "rest"} => \A o \in 1..(order_of[message] - 1) : OnFile(o)

\* ... in the queue of an engine that serves, ...
Queued ==
  \A k \in 1..Len(order_queue[mine]) :
    \A o \in 1..(order_of[order_queue[mine][k]] - 1) : Ahead(k - 1, o)

\* ... and before what the feed has yet to send.
Following ==
  /\ feed.at = "push" /\ feed.region = mine =>
       \A o \in 1..(feed.next - 1) : Ahead(Len(order_queue[mine]), o)
  /\ "producer_done" \in regions[mine] =>
       \A o \in 1..Orders : Ahead(Len(order_queue[mine]), o)

\* The region of an engine that starts has no orders.
Empty ==
  boot \in {"size", "construct", "header", "ready"} =>
    order_queue[mine] = << >> /\ "producer_done" \notin regions[mine]

\* An engine that is down holds nothing.
Stopped == at = "down" => engine = << >>

Arrivals == Numbered /\ Filed /\ Held /\ (Serving => Queued /\ Following) /\ Empty /\ Stopped

LEMMA ArrivalTypes ==
  ASSUME JInv, PInv
  PROVE  /\ Len(file.records) \in Nat /\ Len(order_of) \in Nat /\ order_of \in Seq(Nat)
         /\ \A i \in 1..Len(file.records) : Cmd(i) \in 1..Len(order_of)
         /\ at \in {"write", "rest"} => message \in 1..Len(order_of)
         /\ Serving => mine \in 1..Len(regions) /\ mine # 0
<1>1. /\ Len(file.records) \in Nat /\ Len(order_of) \in Nat /\ popped \in Nat
      /\ \A i \in 1..Len(file.records) : Cmd(i) \in Command /\ Cmd(i) <= popped
  BY JTypes, PTypes, Zenon DEF JInv, Numbers
<1>2. popped \in 0..Len(order_of)
  BY Zenon DEF PInv, Sent
<1>3. \A i \in 1..Len(file.records) : Cmd(i) \in 1..Len(order_of)
  <2>1. \A n \in Command : n <= popped => n \in 1..Len(order_of)
    BY <1>1, <1>2, JournalAssumption, SMT DEF Command
  <2> QED
    BY <1>1, <2>1, Zenon
<1>4. at \in {"write", "rest"} => message \in 1..Len(order_of)
  <2>1. at \in {"write", "rest"} => message \in Command /\ message = popped
    BY Zenon DEF JInv, Numbers
  <2>2. popped \in Command => popped \in 1..Len(order_of)
    BY <1>1, <1>2, JournalAssumption, SMT DEF Command
  <2> QED
    BY <2>1, <2>2, Zenon
<1>5. Serving => mine \in 1..Len(regions) /\ mine # 0
  <2>1. Serving => at \notin {"down", "boot"}
    BY Zenon DEF Serving
  <2> QED
    BY <2>1, PTypes, Zenon DEF PInv, Booting
<1> QED
  BY <1>1, <1>3, <1>4, <1>5, PTypes, Zenon

\* Steps after which no engine serves: the journal keeps a prefix at least.
LEMMA IdleArrivals ==
  ASSUME JInv, PInv, Arrivals, ~Serving', order_of' = order_of, feed'.next \in Nat \ {0},
         Len(file'.records) \in 0..Len(file.records),
         \A i \in 1..Len(file'.records) : file'.records[i] = file.records[i],
         Empty', Stopped'
  PROVE  Arrivals'
<1>1. Numbered'
  BY Zenon DEF Arrivals, Numbered
<1>2. Filed'
  <2>1. 1..Len(file'.records) \subseteq 1..Len(file.records)
    BY ArrivalTypes, SMT
  <2>2. ASSUME NEW i \in 1..Len(file'.records), NEW j \in 1..(i - 1)
        PROVE  j \in 1..Len(file'.records)
    BY ArrivalTypes, SMT
  <2>3. \A i \in 1..Len(file'.records) : Cmd(i)' = Cmd(i)
    BY Zenon DEF Cmd
  <2>4. ASSUME NEW i \in 1..Len(file'.records), NEW o \in 1..(order_of[Cmd(i)] - 1)
        PROVE  \E j \in 1..(i - 1) : order_of[Cmd(j)'] = o
    <3>1. PICK j \in 1..(i - 1) : order_of[Cmd(j)] = o
      BY <2>1, <2>4, Zenon DEF Arrivals, Filed
    <3> QED
      BY <2>2, <2>3, <3>1, Zenon
  <2> QED
    BY <2>3, <2>4, Zenon DEF Filed
<1>3. Held'
  BY Zenon DEF Held, Serving
<1> QED
  BY <1>1, <1>2, <1>3, Zenon DEF Arrivals

\* Steps that move no order.
LEMMA QuietArrivals ==
  ASSUME Arrivals, file'.records = file.records,
         UNCHANGED <<order_of, order_queue, mine, regions>>,
         feed'.next \in Nat \ {0}, feed' = feed \/ feed'.at # "push" \/ feed'.next = 1,
         boot' \in {"none", "remove", "create", boot},
         at' \in {"write", "rest"} <=> at \in {"write", "rest"},
         at \in {"write", "rest"} => message' = message,
         Serving' => Serving, Stopped'
  PROVE  Arrivals'
<1>1. Numbered' /\ Filed' /\ Empty'
  <2>1. Numbered'
    BY Zenon DEF Arrivals, Numbered
  <2>2. Filed'
    <3>1. \A i : Cmd(i)' = Cmd(i)
      BY Zenon DEF Cmd
    <3>2. Filed
      BY Zenon DEF Arrivals
    <3> QED
      BY <3>1, <3>2, SMT DEF Filed
  <2>3. Empty'
    BY Zenon DEF Arrivals, Empty
  <2> QED
    BY <2>1, <2>2, <2>3, Zenon
<1>2. \A o : OnFile(o)' <=> OnFile(o)
  BY Zenon DEF OnFile, Cmd
<1>3. \A o : InHand(o)' <=> InHand(o)
  BY Zenon DEF InHand
<1>4. \A k, o : Ahead(k, o)' <=> Ahead(k, o)
  BY <1>2, <1>3, Zenon DEF Ahead, Waiting
<1>5. Held'
  BY <1>2, Zenon DEF Arrivals, Held
<1>6. ASSUME Serving' PROVE Queued' /\ Following'
  <2>1. Queued /\ Following
    BY <1>6, Zenon DEF Arrivals
  <2>2. Queued'
    BY <1>4, <2>1, Zenon DEF Queued
  <2>3. ASSUME feed'.at = "push", feed'.region = mine, NEW o \in 1..(feed'.next - 1)
        PROVE  Ahead(Len(order_queue[mine]), o)
    <3>1. CASE feed'.next = 1
      BY <2>3, <3>1, SMT
    <3> QED
      BY <2>1, <2>3, <3>1, Zenon DEF Following
  <2> QED
    BY <1>4, <2>1, <2>2, <2>3, Zenon DEF Following
<1> QED
  BY <1>1, <1>5, <1>6, Zenon DEF Arrivals

\* The engine starts, ends, fails or dies.
LEMMA LifeArrivals ==
  ASSUME JInv, PInv, Arrivals, PInv', Start \/ Die \/ Reboot
  PROVE  Arrivals'
<1>1. order_of' = order_of /\ (feed' = feed \/ feed' = NoFeed) /\ boot' \in {"none", "remove"}
  BY Zenon DEF Start, Die, Reboot
<1>2. feed'.next \in Nat \ {0}
  <2>1. NoFeed.next = 1 /\ 1 \in Nat \ {0}
    BY SMT DEF NoFeed, Feed
  <2> QED
    BY <1>1, <2>1, Zenon DEF Arrivals, Numbered
<1>3. at' \in {"down", "boot"} /\ (at' = "down" => engine' = << >>)
  BY Zenon DEF Start, StartFresh, StartRecover, Die, Crash, Reboot, PowerLoss, Gone
<1>4. /\ Len(file'.records) \in 0..Len(file.records)
      /\ \A i \in 1..Len(file'.records) : file'.records[i] = file.records[i]
  <2>1. CASE file' = file
    <3>1. Len(file.records) \in 0..Len(file.records)
      BY ArrivalTypes, SMT
    <3> QED
      BY <2>1, <3>1, Zenon
  <2>2. CASE file' = FileOf(<< >>, FALSE)
    <3>1. file'.records = << >>
      BY <2>2, Zenon DEF FileOf
    <3> QED
      BY <3>1, ArrivalTypes, SMT
  <2>3. CASE \E n \in durable..Len(file.records), torn \in BOOLEAN :
               file' = FileOf(SubSeq(file.records, 1, n), torn)
    <3>1. PICK n \in durable..Len(file.records), torn \in BOOLEAN :
                 file' = FileOf(SubSeq(file.records, 1, n), torn)
      BY <2>3, Zenon
    <3>2. n \in 0..Len(file.records)
      BY JTypes, SMT DEF JInv
    <3>3. file'.records = SubSeq(file.records, 1, n)
      BY <3>1, Zenon DEF FileOf
    <3>4. file.records \in Seq(Record)
      BY JTypes, Zenon DEF JInv
    <3>5. /\ Len(SubSeq(file.records, 1, n)) = n
          /\ \A i \in 1..n : SubSeq(file.records, 1, n)[i] = file.records[i]
      BY <3>2, <3>4, Prefix, Zenon
    <3> QED
      BY <3>2, <3>3, <3>5, Zenon
  <2> QED
    BY <2>1, <2>2, <2>3, Zenon DEF Start, StartFresh, StartRecover, Die, Crash, Reboot, PowerLoss
<1>5. Empty' /\ Stopped' /\ ~Serving'
  BY <1>1, <1>3, Zenon DEF Empty, Stopped, Serving
<1> QED
  BY <1>1, <1>2, <1>4, <1>5, IdleArrivals, Zenon

\* The engine prepares its region, in which nobody can have pushed anything yet.
LEMMA BootArrivals ==
  ASSUME JInv, PInv, Arrivals, remove_file \/ create \/ ftruncate \/ Construct \/ StoreHeader
  PROVE  Arrivals'
<1>1. /\ boot # "none" /\ vars' = vars /\ feed' = feed /\ order_of' = order_of
  BY Zenon DEF remove_file, create, ftruncate, Construct, StoreHeader
<1>2. at = "boot" /\ at' = at /\ file' = file
  BY <1>1, Zenon DEF PInv, Booting, vars, journal
<1>3. ~Serving' /\ Stopped'
  BY <1>2, Zenon DEF Serving, Stopped
<1>4. Len(file'.records) \in 0..Len(file.records)
  BY <1>2, ArrivalTypes, SMT
<1>5. Empty'
  <2>1. CASE remove_file
    BY <2>1, Zenon DEF remove_file, Empty
  <2>2. CASE create
    <3>1. path = 0
      BY <2>2, Zenon DEF create, PInv, Booting
    <3>2. /\ regions' = Append(regions, {}) /\ order_queue' = Append(order_queue, << >>)
          /\ mine' = Len(regions) + 1
      BY <2>2, <3>1, Zenon DEF create
    <3>3. regions'[mine'] = {} /\ order_queue'[mine'] = << >>
      BY <3>2, PTypes, SMT
    <3> QED
      BY <3>3, Zenon DEF Empty
  <2>3. CASE ftruncate \/ StoreHeader
    <3>1. /\ boot \in {"size", "header"} /\ mine' = mine /\ order_queue' = order_queue
          /\ Mark(mine, "sized") \/ Mark(mine, "header")
      BY <2>3, Zenon DEF ftruncate, StoreHeader
    <3>2. mine \in 1..Len(regions)
      BY <3>1, PTypes, Zenon DEF PInv, Booting
    <3>3. "sized" \in Initialised \cup {"producer_done"} /\ "header" \in Initialised \cup {"producer_done"}
      BY Zenon DEF Initialised
    <3>4. regions'[mine] = regions[mine] \cup {"sized"} \/ regions'[mine] = regions[mine] \cup {"header"}
      BY <3>1, <3>2, <3>3, MarkInv, Zenon
    <3>5. order_queue[mine] = << >> /\ "producer_done" \notin regions[mine]
      BY <3>1, Zenon DEF Arrivals, Empty
    <3> QED
      BY <3>1, <3>4, <3>5, Zenon DEF Empty
  <2>4. CASE Construct
    <3>1. /\ boot = "construct" /\ mine' = mine
          /\ regions' = [regions EXCEPT ![mine] = Fresh]
          /\ order_queue' = [order_queue EXCEPT ![mine] = << >>]
      BY <2>4, Zenon DEF Construct
    <3>2. mine \in 1..Len(regions)
      BY <3>1, PTypes, Zenon DEF PInv, Booting
    <3>3. regions'[mine] = Fresh /\ order_queue'[mine] = << >>
      BY <3>1, <3>2, PTypes, SMT
    <3>4. "producer_done" \notin Fresh
      BY SMT DEF Fresh
    <3> QED
      BY <3>1, <3>3, <3>4, Zenon DEF Empty
  <2> QED
    BY <2>1, <2>2, <2>3, <2>4, Zenon
<1>6. feed'.next \in Nat \ {0}
  BY <1>1, Zenon DEF Arrivals, Numbered
<1>7. \A i \in 1..Len(file'.records) : file'.records[i] = file.records[i]
  BY <1>2, Zenon
<1> QED
  BY <1>1, <1>3, <1>4, <1>5, <1>6, <1>7, IdleArrivals, Zenon

\* READY: nothing has been pushed into the region yet, and no feed uses it.
LEMMA ReadyArrivals ==
  ASSUME JInv, PInv, Arrivals, Ready
  PROVE  Arrivals'
<1>1. /\ boot = "ready" /\ boot' = "none" /\ Mark(mine, "ready") /\ at' = "loop"
      /\ UNCHANGED <<file, order_queue, mine, feed, order_of>>
  BY Zenon DEF Ready, Serve, journal
<1>2. /\ mine \in 1..Len(regions) /\ "ready" \notin regions[mine]
  BY <1>1, PTypes, Zenon DEF PInv, Booting
<1>3. order_queue[mine] = << >> /\ "producer_done" \notin regions[mine]
  BY <1>1, Zenon DEF Arrivals, Empty
<1>4. "ready" \in Initialised \cup {"producer_done"} /\ "producer_done" # "ready"
  BY SMT DEF Initialised
<1>5. "producer_done" \notin regions'[mine]
  <2>1. regions'[mine] = regions[mine] \cup {"ready"}
    BY <1>1, <1>2, <1>4, MarkInv, Zenon
  <2> QED
    BY <1>3, <1>4, <2>1, Zenon
<1>6. feed.at = "push" => feed.region # mine
  BY <1>2, Zenon DEF PInv, Attached
<1>7. Numbered'
  BY <1>1, Zenon DEF Arrivals, Numbered
<1>8. Filed'
  <2>1. \A i : Cmd(i)' = Cmd(i)
    BY <1>1, Zenon DEF Cmd
  <2>2. Filed /\ file' = file /\ order_of' = order_of
    BY <1>1, Zenon DEF Arrivals
  <2> QED
    BY <2>1, <2>2, SMT DEF Filed
<1>9. Held' /\ Empty' /\ Stopped'
  BY <1>1, SMT DEF Held, Empty, Stopped
<1>10. Queued'
  <2>1. order_queue'[mine'] = << >>
    BY <1>1, <1>3, Zenon
  <2>2. 1..Len(<< >>) = {}
    BY SMT
  <2> QED
    BY <2>1, <2>2, Zenon DEF Queued
<1>11. Following'
  BY <1>1, <1>5, <1>6, Zenon DEF Following
<1> QED
  BY <1>7, <1>8, <1>9, <1>10, <1>11, Zenon DEF Arrivals

\* What the engine does with a command it has journaled, and how it ends.
LEMMA WorkArrivals ==
  ASSUME JInv, PInv, Arrivals, Work, Len(file'.records) <= Len(file.records)
  PROVE  Arrivals'
<1>1. UNCHANGED <<path, regions, order_queue, boot, mine, feed, order_of>>
  BY Zenon DEF Work, region_vars
<1>2. feed'.next \in Nat \ {0}
  BY <1>1, Zenon DEF Arrivals, Numbered
<1>3. Empty'
  BY <1>1, Zenon DEF Arrivals, Empty
<1>4. CASE at \in {"write", "rest"} /\ AppendFails
  <2>1. at' = "final" /\ file' = file
    BY <1>4, Zenon DEF AppendFails, FailStop, journal
  <2>2. ~Serving' /\ Stopped'
    BY <2>1, Zenon DEF Serving, Stopped
  <2>3. /\ Len(file'.records) \in 0..Len(file.records)
        /\ \A i \in 1..Len(file'.records) : file'.records[i] = file.records[i]
    BY <2>1, ArrivalTypes, SMT
  <2> QED
    BY <1>1, <1>2, <1>3, <2>2, <2>3, IdleArrivals, Zenon
<1>5. CASE RecoveryFails
  <2>1. UNCHANGED <<file, at, message, engine>>
    BY <1>5, Zenon DEF RecoveryFails, vars, journal
  <2>2. Stopped' /\ (Serving' => Serving)
    BY <2>1, Zenon DEF Arrivals, Stopped, Serving
  <2> QED
    BY <1>1, <1>2, <2>1, <2>2, QuietArrivals, Zenon
<1>6. CASE at = "write" /\ at' = "rest" /\ file' = FileOf(file.records, TRUE) /\ message' = message
  <2>1. file'.records = file.records
    BY <1>6, Zenon DEF FileOf
  <2>2. Serving /\ Stopped'
    BY <1>6, Zenon DEF Serving, Stopped
  <2> QED
    BY <1>1, <1>2, <1>6, <2>1, <2>2, QuietArrivals, Zenon
<1>7. CASE Stop \/ Sync \/ Apply \/ Publish \/ Exit
  <2>1. /\ file' = file /\ at \in {"loop", "sync", "apply", "publish", "final"}
        /\ at' \in {"final", "apply", "publish", "loop", "down"}
        /\ at = "final" => at' = "down"
        /\ at' = "down" => engine' = << >>
    BY <1>7, Zenon DEF Stop, Sync, Apply, Publish, Exit, Gone, AppendFails, FailStop, journal
  <2>2. /\ at \notin {"write", "rest"} /\ at' \notin {"write", "rest"}
        /\ Serving' => Serving
    BY <2>1, Zenon DEF Serving
  <2>3. Stopped'
    BY <2>1, Zenon DEF Stopped
  <2> QED
    BY <1>1, <1>2, <2>1, <2>2, <2>3, QuietArrivals, Zenon
<1>8. ~(at \in {"write", "rest"} /\ file' = Appended(file))
  <2>1. file' = Appended(file) => Len(file'.records) = Len(file.records) + 1
    <3>1. file' = Appended(file) =>
            file'.records = Append(file.records, [ordinal |-> next_ordinal, command |-> message])
      BY SMT DEF Appended, FileOf
    <3>2. file.records \in Seq(Record)
      BY JTypes, Zenon DEF JInv
    <3> QED
      BY <3>1, <3>2, SMT
  <2> QED
    BY <2>1, ArrivalTypes, SMT
<1> QED
  BY <1>4, <1>5, <1>6, <1>7, <1>8, Zenon DEF Work, Write

\* The feed looks for its engine, or dies; the file is unlinked.
LEMMA LookArrivals ==
  ASSUME Arrivals, StartFeed \/ OpenRegion \/ SeeReady \/ CheckProtocol \/ FeedDies
                   \/ cleanup_shared_memory
  PROVE  Arrivals'
<1>1. vars' = vars /\ UNCHANGED <<regions, order_queue, boot, mine, order_of>>
  BY Zenon DEF StartFeed, OpenRegion, SeeReady, CheckProtocol, FeedDies, cleanup_shared_memory
<1>2. UNCHANGED <<file, at, message, engine>>
  BY <1>1, Zenon DEF vars, journal
<1>3. feed' = feed \/ feed'.next = 1
  <2>2. feed' = feed \/ \E a, b, c : feed' = Feed(a, b, c, 1)
    BY Zenon DEF StartFeed, OpenRegion, SeeReady, CheckProtocol, FeedDies, cleanup_shared_memory, NoFeed
  <2> QED
    BY <2>2, SMT DEF Feed
<1>4. feed'.next \in Nat \ {0}
  <2>1. 1 \in Nat \ {0}
    BY SMT
  <2> QED
    BY <1>3, <2>1, Zenon DEF Arrivals, Numbered
<1>5. Stopped' /\ (Serving' => Serving)
  BY <1>2, Zenon DEF Arrivals, Stopped, Serving
<1> QED
  BY <1>1, <1>2, <1>3, <1>4, <1>5, QuietArrivals, Zenon

\* The command in hand gets into the journal.
LEMMA WrittenArrivals ==
  ASSUME JInv, PInv, Arrivals, Work, at \in {"write", "rest"}, file' = Appended(file),
         at' \in {"sync", "apply"}
  PROVE  Arrivals'
<1>5. PICK n : n = Len(file.records)
  OBVIOUS
<1>1. UNCHANGED <<path, regions, order_queue, boot, mine, feed, order_of>>
  BY Zenon DEF Work, region_vars
<1>2. /\ n \in Nat /\ Len(file'.records) = n + 1
      /\ \A i \in 1..n : file'.records[i] = file.records[i]
      /\ file'.records[n + 1].command = message
  <2>1. file'.records = Append(file.records, [ordinal |-> next_ordinal, command |-> message])
    BY SMT DEF Appended, FileOf
  <2>2. file.records \in Seq(Record)
    BY JTypes, Zenon DEF JInv
  <2> QED
    BY <1>5, <2>1, <2>2, SMT
<1>3. /\ \A i \in 1..n : Cmd(i)' = Cmd(i)
      /\ Cmd(n + 1)' = message
  BY <1>2, Zenon DEF Cmd
<1>4. /\ \A i \in 1..n : i \in 1..(n + 1) /\ 1..(i - 1) \subseteq 1..n
      /\ n + 1 \in 1..(n + 1) /\ \A i \in 1..(n + 1) : i \in 1..n \/ i = n + 1
      /\ (n + 1) - 1 = n
  BY <1>2, SMT
<1>6. \A o : OnFile(o) \/ InHand(o) => OnFile(o)'
  <2>1. ASSUME NEW o, OnFile(o) PROVE OnFile(o)'
    <3>1. PICK i \in 1..n : order_of[Cmd(i)] = o
      BY <1>5, <2>1, Zenon DEF OnFile
    <3>2. i \in 1..Len(file'.records) /\ order_of'[Cmd(i)'] = o
      BY <1>1, <1>2, <1>3, <1>4, <3>1, Zenon
    <3> QED
      BY <3>2, Zenon DEF OnFile
  <2>2. ASSUME NEW o, InHand(o) PROVE OnFile(o)'
    <3>1. n + 1 \in 1..Len(file'.records) /\ order_of'[Cmd(n + 1)'] = o
      BY <1>1, <1>2, <1>3, <1>4, <2>2, Zenon DEF InHand
    <3> QED
      BY <3>1, Zenon DEF OnFile
  <2> QED
    BY <2>1, <2>2, Zenon
<1>7. \A k, o : Ahead(k, o) => Ahead(k, o)'
  BY <1>1, <1>6, Zenon DEF Ahead, Waiting
<1>8. Filed'
  <2>1. ASSUME NEW i \in 1..n, NEW o \in 1..(order_of[Cmd(i)] - 1)
        PROVE  \E j \in 1..(i - 1) : order_of[Cmd(j)'] = o
    <3>1. PICK j \in 1..(i - 1) : order_of[Cmd(j)] = o
      BY <1>5, <2>1, Zenon DEF Arrivals, Filed
    <3> QED
      BY <1>3, <1>4, <3>1, Zenon
  <2>2. ASSUME NEW o \in 1..(order_of[message] - 1)
        PROVE  \E j \in 1..n : order_of[Cmd(j)'] = o
    <3>1. PICK j \in 1..n : order_of[Cmd(j)] = o
      BY <1>5, <2>2, Zenon DEF Arrivals, Held, OnFile
    <3> QED
      BY <1>3, <3>1, Zenon
  <2>3. ASSUME NEW i \in 1..(n + 1), NEW o \in 1..(order_of[Cmd(i)'] - 1)
        PROVE  \E j \in 1..(i - 1) : order_of[Cmd(j)'] = o
    <3>1. CASE i \in 1..n
      BY <1>3, <2>1, <3>1, Zenon
    <3>2. CASE i = n + 1
      <4>1. Cmd(i)' = message /\ i - 1 = n
        BY <1>3, <1>4, <3>2, Zenon
      <4> QED
        BY <2>2, <4>1, Zenon
    <3> QED
      BY <1>4, <3>1, <3>2, Zenon
  <2> QED
    BY <1>1, <1>2, <2>3, Zenon DEF Filed
<1>9. Numbered' /\ Held' /\ Empty' /\ Stopped'
  BY <1>1, Zenon DEF Arrivals, Numbered, Held, Empty, Stopped
<1>10. Queued' /\ Following'
  <2>1. Queued /\ Following
    BY Zenon DEF Arrivals, Serving
  <2>2. Queued'
    BY <1>1, <1>7, <2>1, Zenon DEF Queued
  <2>3. Following'
    BY <1>1, <1>7, <2>1, Zenon DEF Following
  <2> QED
    BY <2>2, <2>3, Zenon
<1> QED
  BY <1>8, <1>9, <1>10, Zenon DEF Arrivals

\* The engine takes the head of its queue.
LEMMA PopArrivals ==
  ASSUME JInv, PInv, Arrivals, Pop
  PROVE  Arrivals'
<1>5. PICK q : q = order_queue[mine]
  OBVIOUS
<1>1. /\ at = "loop" /\ at' = "write" /\ q # << >> /\ message' = Head(q)
      /\ order_queue' = [order_queue EXCEPT ![mine] = Tail(@)]
      /\ UNCHANGED <<file, regions, boot, mine, feed, order_of>>
  BY <1>5, Zenon DEF Pop, PopCommand, journal
<1>2. mine \in 1..Len(order_queue) /\ order_queue \in Seq(Seq(Nat))
  <2>1. Serving
    BY <1>1, Zenon DEF Serving
  <2> QED
    BY <2>1, ArrivalTypes, PTypes, Zenon
<1>3. q \in Seq(Nat) /\ order_queue'[mine] = Tail(q)
  BY <1>1, <1>2, <1>5, SMT
<1>4. Queued /\ Following
  BY <1>1, Zenon DEF Arrivals, Serving
<1>6. /\ Len(q) \in Nat /\ Len(Tail(q)) = Len(q) - 1 /\ 1 \in 1..Len(q) /\ Len(q) \in 1..Len(q)
      /\ message' = q[1]
      /\ \A k \in 1..Len(Tail(q)) : k + 1 \in 1..Len(q) /\ Tail(q)[k] = q[k + 1] /\ (k + 1) - 1 = k
      /\ \A k \in 1..Len(Tail(q)) : k \in 1..Len(q)
  BY <1>1, <1>3, SMT
<1>7. \A o : ~InHand(o)
  BY <1>1, Zenon DEF InHand
<1>8. \A o : OnFile(o)' <=> OnFile(o)
  BY <1>1, Zenon DEF OnFile, Cmd
<1>9. ASSUME NEW k \in 1..Len(q), NEW o, Ahead(k, o) PROVE Ahead(k - 1, o)'
  <2>1. CASE OnFile(o)
    BY <1>8, <2>1, Zenon DEF Ahead
  <2>2. CASE Waiting(q, k, o)
    <3>1. PICK l \in 1..k : order_of[q[l]] = o
      BY <2>2, Zenon DEF Waiting
    <3>2. CASE l = 1
      <4>1. order_of'[message'] = o
        BY <1>1, <1>6, <3>1, <3>2, Zenon
      <4> QED
        BY <1>1, <4>1, Zenon DEF Ahead, InHand
    <3>3. CASE l # 1
      <4>1. l - 1 \in 1..(k - 1) /\ l - 1 \in 1..Len(Tail(q)) /\ (l - 1) + 1 = l
        BY <1>6, <3>3, SMT
      <4>2. Tail(q)[l - 1] = q[l]
        BY <1>6, <4>1, Zenon
      <4>3. order_of'[order_queue'[mine'][l - 1]] = o
        BY <1>1, <1>3, <3>1, <4>2, Zenon
      <4> QED
        BY <4>1, <4>3, Zenon DEF Ahead, Waiting
    <3> QED
      BY <3>2, <3>3, Zenon
  <2> QED
    BY <1>5, <1>7, <1>9, <2>1, <2>2, Zenon DEF Ahead
<1>10. Held'
  <2>1. ASSUME NEW o \in 1..(order_of[q[1]] - 1) PROVE OnFile(o)
    <3>1. Ahead(1 - 1, o)
      BY <1>4, <1>5, <1>6, Zenon DEF Queued
    <3>2. 1..(1 - 1) = {}
      BY SMT
    <3> QED
      BY <1>7, <3>1, <3>2, Zenon DEF Ahead, Waiting
  <2> QED
    BY <1>1, <1>6, <1>8, <2>1, Zenon DEF Held
<1>11. Queued'
  <2>1. ASSUME NEW k \in 1..Len(Tail(q)), NEW o \in 1..(order_of[Tail(q)[k]] - 1)
        PROVE  Ahead(k - 1, o)'
    <3>1. k + 1 \in 1..Len(q) /\ Tail(q)[k] = q[k + 1] /\ (k + 1) - 1 = k /\ k \in 1..Len(q)
      BY <1>6, Zenon
    <3>2. Ahead(k, o)
      BY <1>4, <1>5, <3>1, Zenon DEF Queued
    <3> QED
      BY <1>9, <3>1, <3>2, Zenon
  <2> QED
    BY <1>1, <1>3, <2>1, Zenon DEF Queued
<1>12. Following'
  <2>1. \A o : Ahead(Len(q), o) => Ahead(Len(Tail(q)), o)'
    BY <1>6, <1>9, Zenon
  <2> QED
    BY <1>1, <1>3, <1>4, <1>5, <2>1, Zenon DEF Following
<1>13. Numbered' /\ Empty' /\ Stopped'
  <2>1. boot = "none"
    BY <1>1, Zenon DEF PInv, Booting
  <2> QED
    BY <1>1, <2>1, Zenon DEF Arrivals, Numbered, Empty, Stopped
<1>14. Filed'
  <2>1. \A i : Cmd(i)' = Cmd(i)
    BY <1>1, Zenon DEF Cmd
  <2>2. Filed /\ file' = file /\ order_of' = order_of
    BY <1>1, Zenon DEF Arrivals
  <2> QED
    BY <2>1, <2>2, SMT DEF Filed
<1> QED
  BY <1>10, <1>11, <1>12, <1>13, <1>14, Zenon DEF Arrivals

\* The feed sends its next order.
LEMMA sendOrderArrivals ==
  ASSUME JInv, PInv, Arrivals, sendOrder
  PROVE  Arrivals'
<1>1. PICK n, q : n = Len(order_of) /\ q = order_queue[mine]
  OBVIOUS
<1>2. /\ feed.at = "push" /\ feed.next <= Orders /\ order_of' = Append(order_of, feed.next)
      /\ order_queue' = [order_queue EXCEPT ![feed.region] = Append(@, n + 1)]
      /\ feed' = Feed("push", feed.region, 0, feed.next + 1)
      /\ vars' = vars /\ UNCHANGED <<regions, boot, mine>>
  BY <1>1, Zenon DEF sendOrder
<1>3. UNCHANGED <<file, at, message, engine>>
  BY <1>2, Zenon DEF vars, journal
<1>4. feed'.next = feed.next + 1 /\ feed'.region = feed.region
  BY <1>2, SMT DEF Feed
<1>5. /\ n \in Nat /\ Len(order_of') = n + 1 /\ n + 1 \in 1..(n + 1)
      /\ order_of'[n + 1] = feed.next
      /\ \A m \in 1..n : order_of'[m] = order_of[m]
      /\ \A m \in 1..(n + 1) : m \in 1..n \/ m = n + 1
  BY <1>1, <1>2, PTypes, SMT
<1>6. /\ feed.next \in Nat \ {0} /\ feed.next \in 1..Orders /\ feed.next + 1 \in Nat \ {0}
      /\ \A o \in 1..((feed.next + 1) - 1) : o \in 1..(feed.next - 1) \/ o = feed.next
  <2>1. feed.next \in Nat \ {0}
    BY Zenon DEF Arrivals, Numbered
  <2> QED
    BY <1>2, <2>1, ProcessAssumption, SMT
<1>7. Numbered'
  BY <1>1, <1>4, <1>5, <1>6, Zenon DEF Arrivals, Numbered
<1>8. /\ \A i \in 1..Len(file.records) : Cmd(i)' = Cmd(i) /\ order_of'[Cmd(i)] = order_of[Cmd(i)]
      /\ at \in {"write", "rest"} => order_of'[message] = order_of[message]
  BY <1>1, <1>3, <1>5, ArrivalTypes, Zenon DEF Cmd
<1>9. Filed'
  <2>1. ASSUME NEW i \in 1..Len(file.records), NEW j \in 1..(i - 1)
        PROVE  j \in 1..Len(file.records)
    BY ArrivalTypes, SMT
  <2>2. ASSUME NEW i \in 1..Len(file'.records), NEW o \in 1..(order_of'[Cmd(i)'] - 1)
        PROVE  \E j \in 1..(i - 1) : order_of'[Cmd(j)'] = o
    <3>0. i \in 1..Len(file.records) /\ order_of'[Cmd(i)'] = order_of[Cmd(i)]
      BY <1>3, <1>8, Zenon
    <3>1. PICK j \in 1..(i - 1) : order_of[Cmd(j)] = o
      BY <3>0, Zenon DEF Arrivals, Filed
    <3> QED
      BY <1>8, <2>1, <3>0, <3>1, Zenon
  <2> QED
    BY <2>2, Zenon DEF Filed
<1>10. \A o : OnFile(o) => OnFile(o)'
  <2>1. ASSUME NEW o, OnFile(o) PROVE OnFile(o)'
    <3>1. PICK i \in 1..Len(file.records) : order_of[Cmd(i)] = o
      BY <2>1, Zenon DEF OnFile
    <3>2. order_of'[Cmd(i)'] = o /\ i \in 1..Len(file'.records)
      BY <1>3, <1>8, <3>1, Zenon
    <3> QED
      BY <3>2, Zenon DEF OnFile
  <2> QED
    BY <2>1, Zenon
<1>11. \A o : InHand(o) => InHand(o)'
  BY <1>3, <1>8, Zenon DEF InHand
<1>12. Held'
  BY <1>3, <1>8, <1>10, Zenon DEF Arrivals, Held
<1>13. feed.region \in 1..Len(order_queue) /\ "ready" \in regions[feed.region]
  BY <1>2, PTypes, Zenon DEF PInv, Attached
<1>14. Empty' /\ Stopped'
  <2>1. ASSUME boot \in {"size", "construct", "header", "ready"}
        PROVE  order_queue'[mine] = order_queue[mine]
    <3>1. mine # feed.region /\ mine \in 1..Len(order_queue)
      BY <1>13, <2>1, PTypes, Zenon DEF PInv, Booting
    <3> QED
      BY <1>2, <1>13, <3>1, PTypes, SMT
  <2>2. Empty'
    BY <1>2, <2>1, Zenon DEF Arrivals, Empty
  <2> QED
    BY <1>3, <2>2, Zenon DEF Arrivals, Stopped
<1>15. ASSUME Serving' PROVE Queued' /\ Following'
  <2>1. Serving /\ Queued /\ Following
    BY <1>3, <1>15, Zenon DEF Arrivals, Serving
  <2>2. mine \in 1..Len(regions)
    BY <2>1, ArrivalTypes, Zenon
  <2>3. /\ q \in Seq(Nat) /\ Len(q) \in Nat
        /\ \A k \in 1..Len(q) : q[k] \in 1..n
    <3>1. q \in Seq(Nat)
      BY <1>1, <2>2, PTypes, SMT
    <3>2. QueueOf(q, n)
      BY <1>1, <2>2, Zenon DEF PInv, Sent
    <3> QED
      BY <3>1, <3>2, SMT DEF QueueOf
  <2>4. PICK p : p = order_queue'[mine]
    OBVIOUS
  <2>5. /\ Len(p) \in Nat /\ Len(q) <= Len(p)
        /\ \A k \in 1..Len(q) : k \in 1..Len(p) /\ p[k] = q[k]
        /\ feed.region = mine => p = Append(q, n + 1)
        /\ feed.region # mine => p = q
    <3>1. CASE feed.region = mine
      <4>1. p = Append(q, n + 1)
        BY <1>1, <1>2, <1>13, <2>4, <3>1, PTypes, SMT
      <4> QED
        BY <1>5, <2>3, <3>1, <4>1, SMT
    <3>2. CASE feed.region # mine
      <4>1. p = q
        BY <1>1, <1>2, <1>13, <2>2, <2>4, <3>2, PTypes, SMT
      <4> QED
        BY <2>3, <3>2, <4>1, SMT
    <3> QED
      BY <3>1, <3>2, Zenon
  <2>6. ASSUME NEW k \in 0..Len(q), NEW m \in k..Len(p), NEW o, Ahead(k, o) PROVE Ahead(m, o)'
    <3>1. CASE Waiting(q, k, o)
      <4>1. PICK l \in 1..k : order_of[q[l]] = o
        BY <3>1, Zenon DEF Waiting
      <4>2. l \in 1..Len(q) /\ l \in 1..m
        BY <2>3, <2>5, SMT
      <4>3. order_of'[order_queue'[mine'][l]] = o
        BY <1>2, <1>5, <2>3, <2>4, <2>5, <4>1, <4>2, Zenon
      <4> QED
        BY <4>2, <4>3, Zenon DEF Ahead, Waiting
    <3> QED
      BY <1>1, <1>10, <1>11, <2>6, <3>1, Zenon DEF Ahead
  <2>7. ASSUME NEW k \in 1..Len(q), NEW o \in 1..(order_of'[p[k]] - 1) PROVE Ahead(k - 1, o)'
    <3>1. k - 1 \in 0..Len(q) /\ k - 1 \in (k - 1)..Len(p)
      BY <2>3, <2>5, SMT
    <3>2. order_of'[p[k]] = order_of[q[k]]
      BY <1>5, <2>3, <2>5, Zenon
    <3>3. Ahead(k - 1, o)
      BY <1>1, <2>1, <3>2, Zenon DEF Queued
    <3> QED
      BY <2>6, <3>1, <3>3, Zenon
  <2>8. \A o : Ahead(Len(q), o) => Ahead(Len(q), o)' /\ Ahead(Len(p), o)'
    <3>1. Len(q) \in 0..Len(q) /\ Len(q) \in Len(q)..Len(p) /\ Len(p) \in Len(q)..Len(p)
      BY <2>3, <2>5, SMT
    <3> QED
      BY <2>6, <3>1, Zenon
  <2>9. ASSUME feed.region = mine
        PROVE  /\ \A k \in 1..Len(p) : k \in 1..Len(q) \/ (k = Len(q) + 1 /\ k - 1 = Len(q))
               /\ Len(q) + 1 \in 1..Len(p) /\ p[Len(q) + 1] = n + 1
               /\ \A o \in 1..(feed.next - 1) : Ahead(Len(q), o)
    <3>1. \A o \in 1..(feed.next - 1) : Ahead(Len(q), o)
      BY <1>1, <1>2, <2>1, <2>9, Zenon DEF Following
    <3>2. p = Append(q, n + 1)
      BY <2>5, <2>9, Zenon
    <3>3. /\ \A k \in 1..Len(p) : k \in 1..Len(q) \/ (k = Len(q) + 1 /\ k - 1 = Len(q))
          /\ Len(q) + 1 \in 1..Len(p) /\ p[Len(q) + 1] = n + 1
      BY <1>5, <2>3, <3>2, SMT
    <3> QED
      BY <3>1, <3>3, Zenon
  <2>10. Queued'
    <3>1. ASSUME NEW k \in 1..Len(p), NEW o \in 1..(order_of'[p[k]] - 1) PROVE Ahead(k - 1, o)'
      <4>1. CASE k \in 1..Len(q)
        BY <2>7, <4>1, Zenon
      <4>2. CASE k \notin 1..Len(q)
        <5>1. feed.region = mine
          BY <2>5, <4>2, Zenon
        <5>2. k - 1 = Len(q) /\ p[k] = n + 1
          BY <2>9, <4>2, <5>1, Zenon
        <5>3. Ahead(Len(q), o)
          BY <1>5, <2>9, <5>1, <5>2, Zenon
        <5> QED
          BY <2>8, <5>2, <5>3, Zenon
      <4> QED
        BY <4>1, <4>2, Zenon
    <3> QED
      BY <1>2, <2>4, <3>1, Zenon DEF Queued
  <2>11. ASSUME feed.region = mine, NEW o \in 1..((feed.next + 1) - 1) PROVE Ahead(Len(p), o)'
    <3>1. CASE o \in 1..(feed.next - 1)
      BY <2>8, <2>9, <2>11, <3>1, Zenon
    <3>2. CASE o = feed.next
      <4>1. order_of'[order_queue'[mine'][Len(q) + 1]] = o
        BY <1>2, <1>5, <2>4, <2>9, <2>11, <3>2, Zenon
      <4> QED
        BY <2>9, <2>11, <4>1, Zenon DEF Ahead, Waiting
    <3> QED
      BY <1>6, <3>1, <3>2, Zenon
  <2>12. "producer_done" \in regions[mine] => \A o \in 1..Orders : Ahead(Len(p), o)'
    BY <1>1, <2>1, <2>8, Zenon DEF Following
  <2>13. Following'
    BY <1>2, <1>4, <2>4, <2>11, <2>12, Zenon DEF Following
  <2> QED
    BY <2>10, <2>13, Zenon
<1> QED
  BY <1>7, <1>9, <1>12, <1>14, <1>15, Zenon DEF Arrivals

\* The feed has sent all of its orders, and says so.
LEMMA FeedDoneArrivals ==
  ASSUME JInv, PInv, Arrivals, FeedDone
  PROVE  Arrivals'
<1>1. /\ feed.at = "push" /\ feed.next > Orders /\ Mark(feed.region, "producer_done")
      /\ feed' = NoFeed /\ vars' = vars /\ UNCHANGED <<order_queue, boot, mine, order_of>>
  BY Zenon DEF FeedDone
<1>2. UNCHANGED <<file, at, message, engine>>
  BY <1>1, Zenon DEF vars, journal
<1>3. feed'.next \in Nat \ {0} /\ feed'.at # "push"
  BY <1>1, SMT DEF NoFeed, Feed
<1>4. feed.region \in 1..Len(regions) /\ "ready" \in regions[feed.region]
  BY <1>1, Zenon DEF PInv, Attached
<1>5. \A i \in 1..Len(regions) : i # feed.region => regions'[i] = regions[i]
  <2>1. "producer_done" \in Initialised \cup {"producer_done"}
    BY Zenon
  <2> QED
    BY <1>1, <1>4, <2>1, MarkInv, Zenon
<1>6. Numbered' /\ Stopped'
  BY <1>1, <1>2, <1>3, Zenon DEF Arrivals, Numbered, Stopped
<1>7. Filed'
  <2>1. \A i : Cmd(i)' = Cmd(i)
    BY <1>2, Zenon DEF Cmd
  <2>2. Filed /\ file' = file /\ order_of' = order_of
    BY <1>1, <1>2, Zenon DEF Arrivals
  <2> QED
    BY <2>1, <2>2, SMT DEF Filed
<1>8. Empty'
  <2>1. ASSUME boot \in {"size", "construct", "header", "ready"}
        PROVE  regions'[mine] = regions[mine]
    BY <1>4, <1>5, <2>1, PTypes, Zenon DEF PInv, Booting
  <2> QED
    BY <1>1, <2>1, Zenon DEF Arrivals, Empty
<1>9. \A k, o : Ahead(k, o)' <=> Ahead(k, o)
  BY <1>1, <1>2, Zenon DEF Ahead, OnFile, Cmd, InHand, Waiting
<1>10. Held'
  BY <1>1, <1>2, Zenon DEF Arrivals, Held, OnFile, Cmd
<1>11. ASSUME Serving' PROVE Queued' /\ Following'
  <2>1. Serving /\ Queued /\ Following
    BY <1>2, <1>11, Zenon DEF Arrivals, Serving
  <2>2. Queued'
    BY <1>1, <1>9, <2>1, Zenon DEF Queued
  <2>3. ASSUME "producer_done" \in regions'[mine], NEW o \in 1..Orders
        PROVE  Ahead(Len(order_queue[mine]), o)
    <3>1. CASE feed.region = mine
      <4>1. feed.next \in Nat
        BY Zenon DEF PInv, Attached
      <4>2. o \in 1..(feed.next - 1)
        BY <1>1, <4>1, ProcessAssumption, SMT
      <4> QED
        BY <1>1, <2>1, <3>1, <4>2, Zenon DEF Following
    <3>2. CASE feed.region # mine
      <4>1. regions'[mine] = regions[mine]
        BY <1>5, <2>1, <3>2, ArrivalTypes, Zenon
      <4> QED
        BY <2>1, <2>3, <4>1, Zenon DEF Following
    <3> QED
      BY <3>1, <3>2, Zenon
  <2>4. Following'
    BY <1>1, <1>3, <1>9, <2>3, Zenon DEF Following
  <2> QED
    BY <2>2, <2>4, Zenon
<1> QED
  BY <1>6, <1>7, <1>8, <1>10, <1>11, Zenon DEF Arrivals

LEMMA ArrivalsStep == JInv /\ PInv /\ Arrivals /\ [ProcessNext]_processVars => Arrivals'
<1> SUFFICES ASSUME JInv, PInv, Arrivals, [ProcessNext]_processVars PROVE Arrivals'
  OBVIOUS
<1>1. CASE UNCHANGED processVars
  <2>1. UNCHANGED <<file, at, message, engine, path, regions, order_queue, boot, mine, feed, order_of>>
    BY <1>1, Zenon DEF processVars, region_vars, vars, journal
  <2>2. Stopped' /\ (Serving' => Serving) /\ feed'.next \in Nat \ {0}
    BY <2>1, Zenon DEF Arrivals, Stopped, Serving, Numbered
  <2> QED
    BY <2>1, <2>2, QuietArrivals, Zenon
<1>2. CASE Start \/ Die \/ Reboot
  BY <1>2, PStep, LifeArrivals, Zenon
<1>3. CASE Work
  <2>1. CASE at \in {"write", "rest"} /\ file' = Appended(file) /\ at' \in {"sync", "apply"}
    BY <1>3, <2>1, WrittenArrivals, Zenon
  <2>2. CASE file'.records = file.records
    <3>1. Len(file'.records) <= Len(file.records)
      BY <2>2, ArrivalTypes, SMT
    <3> QED
      BY <1>3, <3>1, WorkArrivals, Zenon
  <2>3. FileOf(file.records, TRUE).records = file.records
    BY SMT DEF FileOf
  <2>4. ASSUME Write PROVE \/ at \in {"write", "rest"} /\ file' = Appended(file) /\ at' \in {"sync", "apply"}
                           \/ file'.records = file.records
    BY <2>3, <2>4, Zenon DEF Write, AppendFails, journal
  <2>5. ~Write => file' = file
    BY <1>3, Zenon DEF Work, RecoveryFails, Stop, Sync, Apply, Publish, Exit, AppendFails, journal, vars
  <2> QED
    BY <2>1, <2>2, <2>4, <2>5, Zenon
<1> QED
  BY <1>1, <1>2, <1>3, BootArrivals, ReadyArrivals, PopArrivals, LookArrivals, sendOrderArrivals,
     FeedDoneArrivals, Zenon DEF ProcessNext

LEMMA ArrivalsInit == ProcessInit => Arrivals
<1> SUFFICES ASSUME ProcessInit PROVE Arrivals
  OBVIOUS
<1>1. /\ file = NoFile /\ at = "down" /\ engine = << >> /\ boot = "none" /\ feed = NoFeed /\ order_of = << >>
  BY Zenon DEF ProcessInit, Init
<1>2. file.records = << >> /\ feed.next = 1 /\ 1 \in Nat \ {0} /\ 1..Len(<< >>) = {}
  BY <1>1, SMT DEF NoFile, NoFeed, Feed
<1>3. Numbered /\ Filed
  BY <1>1, <1>2, Zenon DEF Numbered, Filed
<1>4. Held /\ ~Serving /\ Empty /\ Stopped
  BY <1>1, Zenon DEF Held, Serving, Empty, Stopped
<1> QED
  BY <1>3, <1>4, Zenon DEF Arrivals

\* Only what follows counts.
INSTANCE FiniteSetTheorems

LEMMA LeastNat ==
  ASSUME NEW S, S \subseteq Nat, S # {}
  PROVE  \E x \in S : \A y \in S : x <= y
<1> DEFINE R == {p \in Nat \X Nat : p[1] < p[2]}
<1>1. IsWellFoundedOn(R, Nat)
  BY NatLessThanWellFounded, Zenon DEF OpToRel
<1> HIDE DEF R
<1>2. PICK x \in S : \A y \in S : ~(<<y, x>> \in R)
  BY <1>1, WFMin, Zenon
<1>3. \A y \in S : ~(y < x)
  BY <1>2, Zenon DEF R
<1> QED
  BY <1>3

\* The engine that runs has applied a prefix of the file.
LEMMA EngineIsFiled ==
  ASSUME JInv, PInv, Arrivals
  PROVE  /\ DOMAIN engine = 1..Len(engine) /\ Len(engine) \in Nat
         /\ \A i \in 1..Len(engine) : order_of[engine[i]] \in 1..Orders
         /\ \A i \in 1..Len(engine) : \A o \in 1..(order_of[engine[i]] - 1) :
              \E j \in 1..(i - 1) : order_of[engine[j]] = o
<1>1. DOMAIN engine = 1..Len(engine) /\ Len(engine) \in Nat /\ Len(file.records) \in Nat /\ at \in Place
  BY JTypes, Zenon DEF JInv
<1>2. CASE at = "down"
  <2>1. 1..Len(engine) = {}
    BY <1>2, SMT DEF Arrivals, Stopped
  <2> QED
    BY <1>1, <2>1, Zenon
<1>3. CASE at # "down"
  <2>1. Len(engine) <= Len(file.records) /\ \A i \in 1..Len(engine) : engine[i] = Cmd(i)
    <3>1. Lag
      BY Zenon DEF JInv
    <3>2. \A i \in 1..Len(engine) : engine[i] = Cmd(i)
      BY <1>3, <3>1, Zenon DEF Lag
    <3>3. \/ Len(engine) = Len(file.records) \/ Len(engine) + 1 = Len(file.records)
          \/ Len(file.records) - Len(engine) \in {0, 1}
      BY <1>1, <1>3, <3>1, Zenon DEF Lag, Place
    <3>4. Len(engine) <= Len(file.records)
      BY <1>1, <3>3, SMT
    <3> QED
      BY <3>2, <3>4, Zenon
  <2>2. ASSUME NEW i \in 1..Len(engine)
        PROVE  i \in 1..Len(file.records) /\ \A j \in 1..(i - 1) : j \in 1..Len(engine)
    BY <1>1, <2>1, SMT
  <2>3. \A i \in 1..Len(engine) : order_of[engine[i]] \in 1..Orders
    BY <2>1, <2>2, ArrivalTypes, Zenon DEF Arrivals, Numbered
  <2>4. ASSUME NEW i \in 1..Len(engine), NEW o \in 1..(order_of[engine[i]] - 1)
        PROVE  \E j \in 1..(i - 1) : order_of[engine[j]] = o
    <3>1. engine[i] = Cmd(i) /\ i \in 1..Len(file.records)
      BY <2>1, <2>2, Zenon
    <3>2. PICK j \in 1..(i - 1) : order_of[Cmd(j)] = o
      BY <3>1, Zenon DEF Arrivals, Filed
    <3> QED
      BY <2>1, <2>2, <3>2, Zenon
  <2> QED
    BY <1>1, <2>3, <2>4, Zenon
<1> QED
  BY <1>2, <1>3, Zenon

\* Before the first arrival of an order came exactly the smaller ones.
LEMMA FirstAfterSmaller ==
  ASSUME JInv, PInv, Arrivals, NEW i \in FirstArrivals
  PROVE  order_of[engine[i]] = Cardinality(CameBefore(i)) + 1
<1>1. i \in 1..Len(engine) /\ order_of[engine[i]] \notin CameBefore(i)
  BY EngineIsFiled, Zenon DEF FirstArrivals
<1>2. PICK o : o = order_of[engine[i]]
  OBVIOUS
<1>3. o \in 1..Orders
  BY <1>1, <1>2, EngineIsFiled, Zenon
<1>4. 1..(o - 1) \subseteq CameBefore(i)
  <2>1. ASSUME NEW p \in 1..(o - 1) PROVE \E j \in 1..(i - 1) : order_of[engine[j]] = p
    BY <1>1, <1>2, EngineIsFiled, Zenon
  <2> QED
    BY <2>1, Zenon DEF CameBefore
<1>5. ASSUME NEW j \in 1..(i - 1) PROVE order_of[engine[j]] \in 1..(o - 1)
  <2>1. j \in 1..Len(engine) /\ \A l \in 1..(j - 1) : l \in 1..(i - 1)
    BY <1>1, EngineIsFiled, SMT
  <2>2. order_of[engine[j]] \in 1..Orders
    BY <2>1, EngineIsFiled, Zenon
  <2>3. order_of[engine[j]] # o
    BY <1>1, <1>2, Zenon DEF CameBefore
  <2>4. o \notin 1..(order_of[engine[j]] - 1)
    <3>1. ASSUME o \in 1..(order_of[engine[j]] - 1) PROVE FALSE
      <4>1. PICK l \in 1..(j - 1) : order_of[engine[l]] = o
        BY <2>1, <3>1, EngineIsFiled, Zenon
      <4> QED
        BY <1>1, <1>2, <2>1, <4>1, Zenon DEF CameBefore
    <3> QED
      BY <3>1, Zenon
  <2> QED
    BY <1>3, <2>2, <2>3, <2>4, ProcessAssumption, SMT
<1>6. CameBefore(i) = 1..(o - 1)
  BY <1>4, <1>5, Zenon DEF CameBefore
<1>7. 1 \in Int /\ o - 1 \in Int
  BY <1>3, ProcessAssumption, SMT
<1>8. Cardinality(1..(o - 1)) = IF 1 > o - 1 THEN 0 ELSE (o - 1) - 1 + 1
  BY <1>7, FS_Interval, Zenon
<1> QED
  BY <1>2, <1>3, <1>6, <1>8, ProcessAssumption, SMT

\* After a complete run of the feed every order has arrived.
LEMMA AllArrived ==
  ASSUME JInv, PInv, Arrivals,
         at = "loop", "producer_done" \in regions[mine], order_queue[mine] = << >>
  PROVE  Cardinality(FirstArrivals) = Orders
<1>1. ASSUME NEW o \in 1..Orders PROVE \E i \in 1..Len(engine) : order_of[engine[i]] = o
  <2>1. Ahead(Len(order_queue[mine]), o)
    BY Zenon DEF Arrivals, Serving, Following
  <2>2. 1..Len(order_queue[mine]) = {}
    BY SMT
  <2>3. OnFile(o)
    BY <2>1, <2>2, Zenon DEF Ahead, InHand, Waiting
  <2>4. Len(engine) = Len(file.records) /\ \A i \in 1..Len(engine) : engine[i] = Cmd(i)
    BY Zenon DEF JInv, Lag
  <2> QED
    BY <2>3, <2>4, Zenon DEF OnFile
<1>2. ASSUME NEW o \in 1..Orders PROVE \E i \in FirstArrivals : order_of[engine[i]] = o
  <2> DEFINE S == {i \in 1..Len(engine) : order_of[engine[i]] = o}
  <2>1. S \subseteq Nat /\ S # {}
    <3>1. 1..Len(engine) \subseteq Nat
      BY SMT
    <3> QED
      BY <1>1, <3>1, Zenon
  <2> HIDE DEF S
  <2>2. PICK i \in S : \A j \in S : i <= j
    BY <2>1, LeastNat, Zenon
  <2>3. i \in 1..Len(engine) /\ order_of[engine[i]] = o
    BY <2>2, Zenon DEF S
  <2>4. ASSUME NEW j \in 1..(i - 1) PROVE order_of[engine[j]] # o
    <3>1. j \in 1..Len(engine) /\ ~(i <= j)
      BY <2>3, EngineIsFiled, SMT
    <3> QED
      BY <2>2, <3>1, Zenon DEF S
  <2> QED
    BY <2>3, <2>4, EngineIsFiled, Zenon DEF FirstArrivals, CameBefore
<1>3. ASSUME NEW i \in FirstArrivals, NEW j \in FirstArrivals, order_of[engine[i]] = order_of[engine[j]]
      PROVE  i = j
  <2>1. i \in 1..Len(engine) /\ j \in 1..Len(engine)
    BY EngineIsFiled, Zenon DEF FirstArrivals
  <2>2. j \notin 1..(i - 1) /\ i \notin 1..(j - 1)
    BY <1>3, Zenon DEF FirstArrivals, CameBefore
  <2> QED
    BY <2>1, <2>2, EngineIsFiled, SMT
<1> DEFINE f == [i \in FirstArrivals |-> order_of[engine[i]]]
<1>4. f \in [FirstArrivals -> 1..Orders]
  BY EngineIsFiled, Zenon DEF FirstArrivals
<1>5. \A i \in FirstArrivals : f[i] = order_of[engine[i]]
  BY Zenon
<1> HIDE DEF f
<1>6. f \in Bijection(FirstArrivals, 1..Orders)
  <2>1. DOMAIN f = FirstArrivals
    BY <1>4, Zenon
  <2>2. IsInjective(f)
    BY <1>3, <1>5, <2>1, Zenon DEF IsInjective
  <2>3. \A o \in 1..Orders : \E i \in FirstArrivals : f[i] = o
    BY <1>2, <1>5, Zenon
  <2> QED
    BY <1>4, <2>2, <2>3, Zenon DEF Bijection, Injection, Surjection
<1>7. ExistsBijection(FirstArrivals, 1..Orders)
  BY <1>6, Zenon DEF ExistsBijection
<1>8. IsFiniteSet(FirstArrivals)
  <2>1. 1 \in Int /\ Len(engine) \in Int
    BY EngineIsFiled, SMT
  <2>2. IsFiniteSet(1..Len(engine))
    BY <2>1, FS_Interval, Zenon
  <2>3. FirstArrivals \in SUBSET (1..Len(engine))
    BY EngineIsFiled, Zenon DEF FirstArrivals
  <2> QED
    BY <2>2, <2>3, FS_Subset, Zenon
<1>9. Cardinality(1..Orders) = Cardinality(FirstArrivals)
  BY <1>7, <1>8, FS_Bijection, Zenon
<1>10. Cardinality(1..Orders) = IF 1 > Orders THEN 0 ELSE Orders - 1 + 1
  <2>1. 1 \in Int /\ Orders \in Int
    BY ProcessAssumption, SMT
  <2> QED
    BY <2>1, FS_Interval, Zenon
<1> QED
  BY <1>9, <1>10, ProcessAssumption, SMT

\* However often engine, feed and machine die and the feed starts again from its
\* first order, the orders reach the engine for the first time in the feed's
\* order with none left out, and after one complete run of feed_handler with one
\* engine none is missing.
THEOREM FirstArrivalsHold == ProcessSpec => []FirstArrivalsInOrder
<1>1. JInv /\ PInv /\ Arrivals => FirstArrivalsInOrder
  BY FirstAfterSmaller, AllArrived, Zenon DEF FirstArrivalsInOrder
<1>2. ProcessInit => JInv
  BY JInitInv, Zenon DEF ProcessInit
<1> QED
  BY <1>1, <1>2, PInitInv, PStep, JStep, ArrivalsInit, ArrivalsStep, PTL DEF ProcessSpec
=============================================================================
