------------------------ MODULE SyncWatermarkProofs ------------------------
(***************************************************************************)
(* Theorems about the watermark of SyncEngine, for any callers, however    *)
(* their runs overlap: what the watermark covers is in the rows.           *)
(***************************************************************************)
EXTENDS SyncEngineProofs, FiniteSetTheorems

-----------------------------------------------------------------------------
(* What a run knows and owes.                                              *)

\* A run in one of these steps may still record a watermark.
Active(r) == r.pc \notin {"idle", "snapshot"}

\* Message m is still to be fetched, will be noted as missed, or has changed
\* after the watermark that the run has read, or will go on from.
Excused(r, m) ==
    \/ m \in r.dirty \cup r.toList \cup r.page
    \/ r.pc = "history" /\ mail[m].ver > r.cursor
    \/ r.pc = "save" /\ mail[m].ver > r.mark
    \/ r.pc = "fetch" /\ r.mode = "incremental" /\ mail[m].ver > r.mark

\* Otherwise the answer that waits in the batch, or else the row, is as Gmail
\* has the message.  An incremental sync repairs nothing that was missed before.
Covers(r, m) ==
    Active(r) =>
        \/ Excused(r, m)
        \/ r.fetched[m] # NoCopy /\ r.fetched[m] = mail[m]
        \/ r.fetched[m] = NoCopy /\ rows[m] = mail[m]
        \/ r.fetched[m] = NoCopy /\ r.mode = "incremental" /\ m \in missed

\* Where the variables of a run are in use.
Shape(r) ==
    /\ r.pc # "fetch" => r.fetched = NothingFetched
    /\ r.pc \notin {"history", "fetch"} => r.page = {}
    /\ r.pc \notin {"list", "fetch"} => r.toList = {}
    /\ r.mode = "full" => r.pc # "history"
    /\ r.mode = "incremental" =>
          /\ r.toList = {} /\ r.dirty = {}
          /\ r.pc \in {"history", "fetch", "save", "snapshot"}

\* What a run has read of the mailbox's historyId is not from the future.
Known(r) ==
    /\ r.pc = "history" => r.cursor <= historyId
    /\ r.pc = "save" \/ (r.pc = "fetch" /\ r.mode = "incremental") => r.mark <= historyId

Sound(r) == Shape(r) /\ Known(r) /\ \A m \in Visible : Covers(r, m)

WatermarkInv ==
    /\ \A j \in Jobs : Sound(run[j])
    /\ \A m \in present : mail[m] # NoCopy
    /\ syncState.hid <= historyId
    /\ NoSilentLoss

-----------------------------------------------------------------------------
(* Frames.                                                                 *)

\* A run that is not running owes nothing, whatever the others do.
LEMMA IdleIsSound == Sound(IdleRun)'
BY DEF Sound, Shape, Known, Covers, Active, IdleRun, NothingFetched

\* A run stands still while a step of another one, or of a request, writes rows:
\* it notes the rows that got an older answer.
LEMMA OthersStaySound ==
    ASSUME TypeOK, WatermarkInv, UNCHANGED mailboxVars,
           NEW i \in Jobs, NEW older \in SUBSET Messages,
           run'[i] = PassedBy(run[i], older), older \subseteq missed',
           \A m \in Visible : rows[m] = mail[m] => rows'[m] = mail[m] \/ m \in older,
           \A m \in Visible : m \in missed => m \in missed' \/ rows'[m] = mail[m]
    PROVE  Sound(run[i])'
<1>1. run[i] \in Run /\ Sound(run[i])
  BY DEF WatermarkInv, TypeOK
<1>2. /\ run'[i].pc = run[i].pc
      /\ run'[i].mode = run[i].mode
      /\ run'[i].toList = run[i].toList
      /\ run'[i].page = run[i].page
      /\ run'[i].fetched = run[i].fetched
      /\ run'[i].cursor = run[i].cursor
      /\ run'[i].mark = run[i].mark
      /\ run[i].dirty \subseteq run'[i].dirty
      /\ run[i].mode # "full" => run'[i] = run[i]
      /\ run[i].mode = "full" /\ run[i].pc \notin {"idle", "snapshot"}
            => older \subseteq run'[i].dirty \cup run[i].toList \cup run[i].page
  BY <1>1, NotingKeepsRun
<1>3. Shape(run[i])' /\ Known(run[i])'
  <2>1. Shape(run[i]) /\ Known(run[i])
    BY <1>1 DEF Sound
  <2>2. run[i].mode = "incremental" => run'[i] = run[i]
    BY <1>2
  <2>3. historyId' = historyId
    BY DEF mailboxVars
  <2> QED
    BY <1>2, <2>1, <2>2, <2>3 DEF Shape, Known
<1>4. ASSUME NEW m \in Visible PROVE Covers(run[i], m)'
  <2>1. Covers(run[i], m) /\ mail' = mail
    BY <1>1 DEF Sound, mailboxVars
  <2>2. Excused(run[i], m) => Excused(run[i], m)'
    BY <1>2, <2>1 DEF Excused
  <2>3. CASE Active(run[i]) /\ run[i].fetched[m] = NoCopy /\ rows[m] = mail[m]
    <3>1. rows'[m] = mail[m] \/ m \in older
      BY <2>3
    <3>2. m \in older /\ run[i].mode = "full" => Excused(run[i], m)'
      BY <1>2, <2>3 DEF Active, Excused
    <3>3. run[i].mode \in {"full", "incremental"}
      BY <1>1 DEF Run
    <3> QED
      BY <1>2, <2>1, <2>3, <3>1, <3>2, <3>3 DEF Covers
  <2>4. CASE Active(run[i]) /\ run[i].fetched[m] = NoCopy /\ m \in missed
               /\ run[i].mode = "incremental"
    <3>1. m \in missed' \/ rows'[m] = mail[m]
      BY <2>4
    <3> QED
      BY <1>2, <2>1, <2>4, <3>1 DEF Covers
  <2> QED
    BY <1>2, <2>1, <2>2, <2>3, <2>4 DEF Covers, Active
<1>5. Visible' = Visible
  BY DEF Visible, mailboxVars
<1> QED
  BY <1>3, <1>4, <1>5 DEF Sound

\* A step of one run that leaves the mailbox alone.
LEMMA OneRunSteps ==
    ASSUME TypeOK, WatermarkInv, NEW j \in Jobs, UNCHANGED mailboxVars,
           NEW older \in SUBSET Messages, older \subseteq missed',
           \A i \in Jobs \ {j} : run'[i] = PassedBy(run[i], older),
           \A m \in Visible : rows[m] = mail[m] => rows'[m] = mail[m] \/ m \in older,
           \A m \in Visible : m \in missed => m \in missed' \/ rows'[m] = mail[m],
           Sound(run[j])', syncState'.hid <= historyId, NoSilentLoss'
    PROVE  WatermarkInv'
<1>1. \A i \in Jobs \ {j} : Sound(run[i])'
  BY OthersStaySound
<1>2. \A i \in Jobs : Sound(run[i])'
  BY <1>1
<1>3. (\A m \in present : mail[m] # NoCopy)' /\ (syncState.hid <= historyId)'
  BY DEF WatermarkInv, mailboxVars
<1> QED
  BY <1>2, <1>3 DEF WatermarkInv

\* A step of one run that leaves the rows alone, too.
LEMMA QuietRunSteps ==
    ASSUME TypeOK, WatermarkInv, NEW j \in Jobs, UNCHANGED <<mailboxVars, rows, missed>>,
           NEW r, run' = [run EXCEPT ![j] = r], Sound(run[j])',
           syncState'.hid <= historyId, NoSilentLoss'
    PROVE  WatermarkInv'
<1>1. \A i \in Jobs \ {j} : run'[i] = PassedBy(run[i], {})
  BY NotingKeepsRun DEF TypeOK
<1> QED
  BY <1>1, OneRunSteps

\* A step that writes neither the rows nor the watermark loses nothing.
LEMMA NothingLost ==
    ASSUME TypeOK, WatermarkInv, UNCHANGED <<mailboxVars, rows, syncState, missed>>
    PROVE  /\ NoSilentLoss'
           /\ syncState'.hid <= historyId
BY DEF WatermarkInv, NoSilentLoss, Visible, mailboxVars

-----------------------------------------------------------------------------
(* The mailbox moves.                                                      *)

\* A change of a message is noted by a run that has passed it.
LEMMA WatermarkInvChange ==
    ASSUME TypeOK, WatermarkInv, NEW i \in Messages, NewVersion(i), NoteChange(i),
           present' \subseteq present \cup {i}, UNCHANGED <<rows, syncState>>
    PROVE  WatermarkInv'
<1>1. /\ mail' = [mail EXCEPT ![i] = mail'[i]]
      /\ mail'[i].ver = historyId + 1
      /\ historyId' = historyId + 1
  BY DEF NewVersion
<1>2. missed' = missed \ {i}
  BY DEF NoteChange
<1>3. \A m \in Messages \ {i} : mail'[m] = mail[m] /\ (m \in Visible' => m \in Visible)
  BY <1>1 DEF Visible, TypeOK, MailboxTypeOK
<1>4. historyId \in Nat /\ syncState.hid \in Nat
  BY DEF TypeOK, MailboxTypeOK, SyncStates
<1>5. ASSUME NEW j \in Jobs PROVE Sound(run[j])'
  <2>1. run[j] \in Run /\ Sound(run[j])
    BY DEF WatermarkInv, TypeOK
  <2>2. run'[j] = IF InWindow(run[j]) /\ i \notin run[j].toList \cup run[j].page
                  THEN [run[j] EXCEPT !.dirty = @ \cup {i}] ELSE run[j]
    BY DEF NoteChange
  <2>3. /\ run'[j].pc = run[j].pc
        /\ run'[j].mode = run[j].mode
        /\ run'[j].toList = run[j].toList
        /\ run'[j].page = run[j].page
        /\ run'[j].fetched = run[j].fetched
        /\ run'[j].cursor = run[j].cursor
        /\ run'[j].mark = run[j].mark
        /\ run[j].dirty \subseteq run'[j].dirty
        /\ InWindow(run[j]) => i \in run'[j].dirty \cup run[j].toList \cup run[j].page
        /\ run[j].mode = "incremental" => run'[j].dirty = run[j].dirty
    BY <2>1, <2>2 DEF Run, InWindow
  <2>4. Shape(run[j])'
    BY <2>1, <2>3 DEF Sound, Shape
  <2>5. Known(run[j])'
    BY <2>1, <2>3, <1>1, <1>4 DEF Sound, Known, Run
  <2>6. ASSUME NEW m \in Visible', m # i PROVE Covers(run[j], m)'
    <3>1. m \in Messages /\ m \in Visible /\ mail'[m] = mail[m]
      BY <2>6, <1>3 DEF Visible, TypeOK, MailboxTypeOK
    <3>2. Covers(run[j], m) /\ (m \in missed => m \in missed')
      BY <2>1, <2>6, <3>1, <1>2 DEF Sound
    <3>3. Excused(run[j], m) => Excused(run[j], m)'
      BY <2>3, <3>1 DEF Excused
    <3> QED
      BY <2>3, <3>1, <3>2, <3>3 DEF Covers, Active
  <2>7. Covers(run[j], i)'
    <3>1. Known(run[j]) /\ Shape(run[j])
      BY <2>1 DEF Sound
    <3>2. run[j].pc = "history" => mail'[i].ver > run[j].cursor
      BY <3>1, <2>1, <1>1, <1>4 DEF Known, Run
    <3>3. run[j].pc = "save" \/ (run[j].pc = "fetch" /\ run[j].mode = "incremental")
             => mail'[i].ver > run[j].mark
      BY <3>1, <2>1, <1>1, <1>4 DEF Known, Run
    <3>4. Active(run[j]) => \/ InWindow(run[j]) \/ run[j].pc \in {"history", "save"}
                            \/ run[j].pc = "fetch" /\ run[j].mode = "incremental"
      BY <3>1, <2>1 DEF Active, InWindow, Run, Steps, Shape
    <3> QED
      BY <2>3, <3>2, <3>3, <3>4 DEF Covers, Active, Excused
  <2> QED
    BY <2>4, <2>5, <2>6, <2>7 DEF Sound
<1>6. \A m \in present' : mail'[m] # NoCopy
  BY <1>1, <1>3, <1>4 DEF WatermarkInv, NoCopy, TypeOK, MailboxTypeOK
<1>7. syncState'.hid <= historyId' /\ mail'[i].ver > syncState.hid
  BY <1>1, <1>2, <1>4 DEF WatermarkInv
<1>8. NoSilentLoss'
  <2>1. \A m \in Visible' : m \in Messages
    BY <1>1 DEF Visible, TypeOK, MailboxTypeOK
  <2> QED
    BY <1>2, <1>3, <1>7, <2>1 DEF WatermarkInv, NoSilentLoss
<1> QED
  BY <1>5, <1>6, <1>7, <1>8 DEF WatermarkInv

\* Whatever else happens in the mailbox asks nothing more of a run.
LEMMA WatermarkInvQuiet ==
    ASSUME TypeOK, WatermarkInv,
           UNCHANGED <<mail, rows, syncState, run, missed>>,
           present' \subseteq present, historyId' \in Nat, historyId' >= historyId
    PROVE  WatermarkInv'
<1>1. Visible' \subseteq Visible
  BY DEF Visible
<1>2. historyId \in Nat /\ syncState.hid \in Nat
  BY DEF TypeOK, MailboxTypeOK, SyncStates
<1>3. ASSUME NEW j \in Jobs PROVE Sound(run[j])'
  <2>1. run[j] \in Run /\ Sound(run[j])
    BY DEF WatermarkInv, TypeOK
  <2>2. Shape(run[j])'
    BY <2>1 DEF Sound, Shape
  <2>3. Known(run[j])'
    BY <2>1, <1>2 DEF Sound, Known, Run
  <2>4. \A m \in Visible' : Covers(run[j], m)'
    BY <2>1, <1>1 DEF Sound, Covers, Active, Excused
  <2> QED
    BY <2>2, <2>3, <2>4 DEF Sound
<1>4. NoSilentLoss'
  BY <1>1 DEF WatermarkInv, NoSilentLoss
<1> QED
  BY <1>2, <1>3, <1>4 DEF WatermarkInv

-----------------------------------------------------------------------------
(* Runs begin and end.                                                     *)

\* A new full sync has everything before it.
LEMMA FullRunIsSound == UNCHANGED present /\ present \in SUBSET Messages => Sound(FullRun)'
<1>1. /\ FullRun.pc = "list" /\ FullRun.mode = "full" /\ FullRun.toList = Messages
      /\ FullRun.page = {} /\ FullRun.fetched = NothingFetched
  BY DEF FullRun, IdleRun
<1> QED
  BY <1>1 DEF Sound, Shape, Known, Covers, Excused, Visible

\* A new incremental sync goes on where the recorded one has ended.
LEMMA IncrementalRunIsSound ==
    ASSUME TypeOK, WatermarkInv, syncState.type # "none",
           UNCHANGED <<mailboxVars, rows, syncState, missed>>,
           NEW j \in Jobs, run' = [run EXCEPT ![j] = IncrementalRun]
    PROVE  Sound(run[j])'
<1>1. /\ run'[j].pc = "history" /\ run'[j].mode = "incremental"
      /\ run'[j].toList = {} /\ run'[j].page = {} /\ run'[j].dirty = {}
      /\ run'[j].fetched = NothingFetched /\ run'[j].cursor = syncState.hid
  BY DEF IncrementalRun, IdleRun, TypeOK
<1>2. Shape(run[j])'
  BY <1>1 DEF Shape
<1>3. Known(run[j])'
  BY <1>1 DEF Known, WatermarkInv, TypeOK, MailboxTypeOK, SyncStates, mailboxVars
<1>4. ASSUME NEW m \in Visible PROVE Covers(run[j], m)'
  <2>1. NothingFetched[m] = NoCopy
    BY DEF NothingFetched, Visible, TypeOK, MailboxTypeOK
  <2>2. rows[m] = mail[m] \/ mail[m].ver > syncState.hid \/ m \in missed
    BY DEF WatermarkInv, NoSilentLoss
  <2> QED
    BY <1>1, <2>1, <2>2 DEF Covers, Excused, mailboxVars
<1>5. Visible' = Visible
  BY DEF Visible, mailboxVars
<1> QED
  BY <1>2, <1>3, <1>4, <1>5 DEF Sound

\* Beginning a run, whoever else runs.
LEMMA WatermarkInvBegin ==
    ASSUME TypeOK, WatermarkInv, NEW j \in Jobs, BeginFull(j) \/ BeginIncremental(j)
    PROVE  WatermarkInv'
<1>1. UNCHANGED <<mailboxVars, rows, syncState, missed>>
  BY DEF BeginFull, BeginIncremental, dbVars
<1>2. PICK r : run' = [run EXCEPT ![j] = r] /\
               (r = FullRun \/ (r = IncrementalRun /\ syncState.type # "none"))
  BY DEF BeginFull, BeginIncremental
<1>3. Sound(run[j])'
  <2>1. CASE r = FullRun
    <3>1. run'[j] = FullRun
      BY <1>2, <2>1 DEF TypeOK
    <3> QED
      BY <1>1, <3>1, FullRunIsSound DEF TypeOK, MailboxTypeOK, mailboxVars
  <2>2. CASE r = IncrementalRun /\ syncState.type # "none"
    BY <1>1, <1>2, <2>2, IncrementalRunIsSound
  <2> QED
    BY <1>2, <2>1, <2>2
<1> QED
  BY <1>1, <1>2, <1>3, NothingLost, QuietRunSteps

\* A run that ends, by itself or not, leaves no debt, or a full sync takes over.
LEMMA WatermarkInvEnd ==
    ASSUME TypeOK, WatermarkInv, NEW j \in Jobs,
           NEW r \in {IdleRun, FullRun}, run' = [run EXCEPT ![j] = r],
           UNCHANGED <<mailboxVars, rows, syncState, missed>>
    PROVE  WatermarkInv'
<1>1. run'[j] = r
  BY DEF TypeOK
<1>2. Sound(run[j])'
  BY <1>1, IdleIsSound, FullRunIsSound DEF TypeOK, MailboxTypeOK, mailboxVars
<1> QED
  BY <1>2, NothingLost, QuietRunSteps

-----------------------------------------------------------------------------
(* Steps of a run.                                                         *)

\* Listing: what a page names is fetched, what it leaves is listed later, and
\* what is hidden now is noted when it changes.
LEMMA WatermarkInvList ==
    ASSUME TypeOK, WatermarkInv, NEW j \in Jobs, ListPage(j)
    PROVE  WatermarkInv'
<1>1. UNCHANGED <<mailboxVars, rows, syncState, missed>> /\ run[j].pc = "list"
  BY DEF ListPage, dbVars
<1>2. run[j] \in Run /\ Sound(run[j])
  BY DEF WatermarkInv, TypeOK
<1> DEFINE rest == run[j].toList \cap Visible
<1>3. PICK ids \in SUBSET rest :
        /\ ids = rest \/ Cardinality(ids) = PageSize
        /\ run' = [run EXCEPT ![j] =
              [@ EXCEPT !.toList = rest \ ids, !.page = ids,
                        !.pc = IF ids = {} THEN "labels" ELSE "fetch"]]
  BY DEF ListPage
<1>4. ids = {} => rest = {}
  BY <1>3, FS_EmptySet, SyncAssumption
<1>5. /\ run'[j].toList = rest \ ids
      /\ run'[j].page = ids
      /\ run'[j].pc = IF ids = {} THEN "labels" ELSE "fetch"
      /\ run'[j].mode = run[j].mode
      /\ run'[j].fetched = run[j].fetched
      /\ run'[j].dirty = run[j].dirty
  BY <1>2, <1>3 DEF Run, TypeOK
<1>6. run[j].mode = "full" /\ run[j].page = {} /\ run[j].fetched = NothingFetched
  BY <1>1, <1>2 DEF Sound, Shape, Run
<1>7. Shape(run[j])' /\ Known(run[j])'
  BY <1>4, <1>5, <1>6 DEF Shape, Known
<1>8. ASSUME NEW m \in Visible PROVE Covers(run[j], m)'
  <2>1. Covers(run[j], m) /\ Active(run[j])
    BY <1>1, <1>2 DEF Sound, Active
  <2>2. Excused(run[j], m) => Excused(run[j], m)'
    BY <1>1, <1>5, <1>6 DEF Excused
  <2> QED
    BY <1>1, <1>5, <1>6, <2>1, <2>2 DEF Covers, mailboxVars
<1>9. Sound(run[j])'
  BY <1>1, <1>7, <1>8 DEF Sound, Visible, mailboxVars
<1> QED
  BY <1>1, <1>3, <1>9, NothingLost, QuietRunSteps

\* Reading history: everything up to the cursor is named or was in the rows.
LEMMA WatermarkInvHistory ==
    ASSUME TypeOK, WatermarkInv, NEW j \in Jobs, HistoryPage(j)
    PROVE  WatermarkInv'
<1>1. UNCHANGED <<mailboxVars, rows, syncState, missed>> /\ run[j].pc = "history"
  BY DEF HistoryPage, dbVars
<1>2. run[j] \in Run /\ Sound(run[j])
  BY DEF WatermarkInv, TypeOK
<1>3. PICK upto \in run[j].cursor..historyId :
        LET ids == run[j].page \cup ChangedBetween(run[j].cursor, upto) IN
        run' = [run EXCEPT ![j] =
              [@ EXCEPT !.cursor = upto, !.page = ids, !.mark = historyId,
                        !.pc = IF upto < historyId THEN "history"
                               ELSE IF ids = {} THEN "save" ELSE "fetch"]]
  BY DEF HistoryPage
<1> DEFINE ids == run[j].page \cup ChangedBetween(run[j].cursor, upto)
<1>4. /\ run'[j].cursor = upto
      /\ run'[j].page = ids
      /\ run'[j].mark = historyId
      /\ run'[j].pc = IF upto < historyId THEN "history"
                      ELSE IF ids = {} THEN "save" ELSE "fetch"
      /\ run'[j].mode = run[j].mode
      /\ run'[j].fetched = run[j].fetched
      /\ run'[j].toList = run[j].toList
      /\ run'[j].dirty = run[j].dirty
  BY <1>2, <1>3 DEF Run, TypeOK
<1>5. /\ run[j].mode = "incremental" /\ run[j].toList = {} /\ run[j].dirty = {}
      /\ run[j].fetched = NothingFetched
  BY <1>1, <1>2 DEF Sound, Shape, Run
<1>6. Shape(run[j])'
  BY <1>4, <1>5 DEF Shape
<1>7. historyId \in Nat /\ run[j].cursor \in Nat
  BY <1>2 DEF TypeOK, MailboxTypeOK, Run
<1>8. Known(run[j])'
  BY <1>1, <1>3, <1>4, <1>7 DEF Known, mailboxVars
<1>9. ASSUME NEW m \in Visible PROVE Covers(run[j], m)'
  <2>1. m \in Messages /\ mail[m].ver \in Nat
    BY DEF Visible, TypeOK, MailboxTypeOK, Copy
  <2>2. NothingFetched[m] = NoCopy
    BY <2>1 DEF NothingFetched
  <2>3. m \in run[j].page \cup missed \/ rows[m] = mail[m] \/ mail[m].ver > run[j].cursor
    BY <1>1, <1>2, <1>5, <2>2 DEF Sound, Covers, Active, Excused
  <2>4. m \in ids \cup missed \/ rows[m] = mail[m] \/ mail[m].ver > upto
    BY <2>1, <2>3, <1>3, <1>7 DEF ChangedBetween
  <2>5. upto < historyId \/ upto = historyId
    BY <1>3, <1>7
  <2> HIDE DEF ids
  <2> QED
    BY <2>2, <2>4, <2>5, <1>1, <1>4, <1>5 DEF Covers, Excused, mailboxVars
<1>10. Sound(run[j])'
  BY <1>1, <1>6, <1>8, <1>9 DEF Sound, Visible, mailboxVars
<1> QED
  BY <1>1, <1>3, <1>10, NothingLost, QuietRunSteps

\* Fetching: the answer is what Gmail has now.
LEMMA WatermarkInvFetch ==
    ASSUME TypeOK, WatermarkInv, NEW j \in Jobs, NEW i \in Messages, Fetch(j, i)
    PROVE  WatermarkInv'
<1>1. UNCHANGED <<mailboxVars, rows, syncState, missed>> /\ run[j].pc = "fetch"
  BY DEF Fetch, dbVars
<1>2. run[j] \in Run /\ Sound(run[j])
  BY DEF WatermarkInv, TypeOK
<1> DEFINE got == [run[j].fetched EXCEPT ![i] = mail[i]]
<1>3. run' = [run EXCEPT ![j] = [@ EXCEPT !.page = run[j].page \ {i}, !.fetched = got]]
  BY DEF Fetch
<1>4. /\ run'[j].page = run[j].page \ {i}
      /\ run'[j].fetched = got
      /\ run'[j].pc = run[j].pc
      /\ run'[j].mode = run[j].mode
      /\ run'[j].toList = run[j].toList
      /\ run'[j].dirty = run[j].dirty
      /\ run'[j].cursor = run[j].cursor
      /\ run'[j].mark = run[j].mark
  BY <1>2, <1>3 DEF Run, TypeOK
<1>5. got[i] = mail[i] /\ \A m \in Messages \ {i} : got[m] = run[j].fetched[m]
  BY <1>2 DEF Run
<1>6. mail[i] # NoCopy
  BY DEF Fetch, WatermarkInv
<1>7. Shape(run[j])' /\ Known(run[j])'
  BY <1>1, <1>2, <1>4 DEF Sound, Shape, Known, mailboxVars
<1>8. ASSUME NEW m \in Visible PROVE Covers(run[j], m)'
  <2>1. m \in Messages /\ Covers(run[j], m) /\ Active(run[j])
    BY <1>1, <1>2 DEF Sound, Visible, TypeOK, MailboxTypeOK, Active
  <2>2. CASE m = i
    BY <2>2, <1>1, <1>4, <1>5, <1>6 DEF Covers, mailboxVars
  <2>3. CASE m # i
    <3>1. Excused(run[j], m) => Excused(run[j], m)'
      BY <2>3, <1>1, <1>4 DEF Excused, mailboxVars
    <3>2. run'[j].fetched[m] = run[j].fetched[m]
      BY <2>1, <2>3, <1>4, <1>5
    <3> HIDE DEF got
    <3> QED
      BY <2>1, <3>1, <3>2, <1>1, <1>4 DEF Covers, mailboxVars
  <2> QED
    BY <2>2, <2>3
<1>9. Sound(run[j])'
  BY <1>1, <1>7, <1>8 DEF Sound, Visible, mailboxVars
<1> QED
  BY <1>1, <1>3, <1>9, NothingLost, QuietRunSteps

\* Storing any part of a batch: a row that was as Gmail has its message stays so,
\* or is noted as overwritten.
LEMMA StoringKeeps ==
    ASSUME TypeOK, Sources, NEW j \in Jobs,
           NEW ids \in SUBSET Got(run[j]), UpsertRows(run[j].fetched, ids),
           NEW m \in Messages, rows[m] = mail[m]
    PROVE  rows'[m] = mail[m] \/ m \in Overwritten(run[j].fetched, ids)
<1>1. CASE m \in ids
  <2>1. rows'[m] = run[j].fetched[m]
    BY <1>1 DEF UpsertRows
  <2>2. Answer(run[j].fetched[m], m)
    BY DEF Sources
  <2>3. run[j].fetched[m].ver \in Nat /\ mail[m].ver \in Nat
    BY DEF TypeOK, MailboxTypeOK, Run, Copy
  <2> QED
    BY <1>1, <2>1, <2>2, <2>3 DEF Answer, Overwritten
<1>2. CASE m \notin ids
  BY <1>2 DEF UpsertRows
<1> QED
  BY <1>1, <1>2

\* So a batch, or a part of it, takes nothing back unnoticed that the watermark
\* covers.
LEMMA StoringLosesNothing ==
    ASSUME TypeOK, Sources, WatermarkInv, NEW j \in Jobs,
           NEW ids \in SUBSET Got(run[j]), UpsertRows(run[j].fetched, ids),
           UNCHANGED <<mailboxVars, syncState>>,
           missed' = missed \cup Overwritten(run[j].fetched, ids)
    PROVE  NoSilentLoss' /\ syncState'.hid <= historyId
<1>1. \A m \in Messages : rows[m] = mail[m]
                            => rows'[m] = mail[m] \/ m \in Overwritten(run[j].fetched, ids)
  BY StoringKeeps
<1>2. Visible' = Visible /\ Visible \subseteq Messages
  BY DEF Visible, mailboxVars, TypeOK, MailboxTypeOK
<1>3. syncState'.hid <= historyId
  BY DEF WatermarkInv
<1> QED
  BY <1>1, <1>2, <1>3 DEF WatermarkInv, NoSilentLoss, mailboxVars

\* The commit of a batch, whole or not: the other runs note what it overwrites.
LEMMA StoringIsSound ==
    ASSUME TypeOK, Sources, WatermarkInv, NEW j \in Jobs,
           NEW ids \in SUBSET Got(run[j]), UpsertRows(run[j].fetched, ids),
           UNCHANGED <<mailboxVars, syncState>>,
           NEW next, GoesOn(j, next, Overwritten(run[j].fetched, ids)), Sound(run[j])'
    PROVE  WatermarkInv'
<1> DEFINE older == Overwritten(run[j].fetched, ids)
<1>1. older \in SUBSET Messages /\ Visible \subseteq Messages
  BY DEF Overwritten, Got, Visible, TypeOK, MailboxTypeOK
<1>2. /\ \A i \in Jobs \ {j} : run'[i] = PassedBy(run[i], older)
      /\ missed' = missed \cup older
  BY DEF GoesOn
<1>3. \A m \in Visible : rows[m] = mail[m] => rows'[m] = mail[m] \/ m \in older
  BY <1>1, StoringKeeps
<1>4. NoSilentLoss' /\ syncState'.hid <= historyId
  BY <1>2, StoringLosesNothing
<1> HIDE DEF older
<1> QED
  BY <1>1, <1>2, <1>3, <1>4, OneRunSteps

\* The commit of a whole batch: the rows become what the run knew already.
LEMMA WatermarkInvStore ==
    ASSUME TypeOK, Sources, WatermarkInv, NEW j \in Jobs, StoreBatch(j)
    PROVE  WatermarkInv'
<1> DEFINE older == Overwritten(run[j].fetched, Got(run[j]))
           next == [run[j] EXCEPT !.fetched = NothingFetched, !.pc = AfterBatch(run[j])]
<1>1. /\ UNCHANGED <<mailboxVars, syncState>>
      /\ run[j].pc = "fetch"
      /\ UpsertRows(run[j].fetched, Got(run[j]))
      /\ GoesOn(j, next, older)
  BY DEF StoreBatch, BatchReady
<1>2. run[j] \in Run /\ Sound(run[j])
  BY DEF WatermarkInv, TypeOK
<1>3. run'[j] = next /\ missed \subseteq missed'
  BY <1>1 DEF GoesOn
<1>4. /\ run'[j].fetched = NothingFetched
      /\ run'[j].pc = AfterBatch(run[j])
      /\ run'[j].page = run[j].page
      /\ run'[j].mode = run[j].mode
      /\ run'[j].toList = run[j].toList
      /\ run'[j].dirty = run[j].dirty
      /\ run'[j].cursor = run[j].cursor
      /\ run'[j].mark = run[j].mark
  BY <1>2, <1>3 DEF Run
<1>5. \A m \in Messages : /\ NothingFetched[m] = NoCopy
                          /\ rows'[m] = IF run[j].fetched[m] # NoCopy
                                        THEN run[j].fetched[m] ELSE rows[m]
  BY <1>1 DEF NothingFetched, UpsertRows, Got
<1>6. \/ AfterBatch(run[j]) = "fetch"
      \/ AfterBatch(run[j]) = "save" /\ run[j].page = {} /\ run[j].mode = "incremental"
      \/ AfterBatch(run[j]) = "list" /\ run[j].page = {} /\ run[j].mode = "full"
      \/ AfterBatch(run[j]) = "labels" /\ run[j].page = {} /\ run[j].mode = "full"
         /\ run[j].toList = {}
  BY <1>2 DEF AfterBatch, Run
<1>7. Shape(run[j])' /\ Known(run[j])'
  BY <1>1, <1>2, <1>4, <1>6 DEF Sound, Shape, Known, mailboxVars
<1>8. ASSUME NEW m \in Visible PROVE Covers(run[j], m)'
  <2>1. m \in Messages /\ Covers(run[j], m) /\ Active(run[j])
    BY <1>1, <1>2 DEF Sound, Visible, TypeOK, MailboxTypeOK, Active
  <2>2. Excused(run[j], m) => Excused(run[j], m)'
    BY <1>1, <1>4, <1>6 DEF Excused, mailboxVars
  <2>3. mail'[m] = mail[m] /\ (m \in missed => m \in missed')
    BY <1>1, <1>3 DEF mailboxVars
  <2> QED
    BY <2>1, <2>2, <2>3, <1>4, <1>5 DEF Covers
<1>9. Sound(run[j])'
  BY <1>1, <1>7, <1>8 DEF Sound, Visible, mailboxVars
<1> QED
  BY <1>1, <1>9, StoringIsSound

\* Registry, junction and profile: nothing was fetched or is left to fetch.  The
\* profile's historyId covers what the rows have and what is noted as missed.
LEMMA WatermarkInvRest ==
    ASSUME TypeOK, WatermarkInv, NEW j \in Jobs,
           SyncRegistry(j) \/ SelectLabels(j) \/ RebuildJunction(j) \/ GetProfile(j)
    PROVE  WatermarkInv'
<1>1. /\ UNCHANGED <<mailboxVars, rows, syncState, missed>>
      /\ run[j].pc \in {"labels", "select", "junction", "profile"}
  BY DEF SyncRegistry, SelectLabels, RebuildJunction, GetProfile, dbVars
<1>2. run[j] \in Run /\ Sound(run[j])
  BY DEF WatermarkInv, TypeOK
<1>3. PICK r : /\ run' = [run EXCEPT ![j] = r]
               /\ \/ r = [run[j] EXCEPT !.pc = "select"]
                  \/ r = [run[j] EXCEPT !.valid = registry, !.pc = "junction"]
                  \/ r = [run[j] EXCEPT !.valid = {}, !.pc = "profile"]
                  \/ r = [run[j] EXCEPT !.mark = historyId, !.pc = "save"]
  BY DEF SyncRegistry, SelectLabels, RebuildJunction, GetProfile
<1>4. /\ \/ r.pc \in {"select", "junction", "profile"}
         \/ r.pc = "save" /\ r.mark = historyId
      /\ r.fetched = run[j].fetched
      /\ r.page = run[j].page
      /\ r.mode = run[j].mode
      /\ r.toList = run[j].toList
      /\ r.dirty = run[j].dirty
  BY <1>2, <1>3 DEF Run
<1>5. run'[j] = r
  BY <1>3 DEF TypeOK
<1>6. /\ run[j].mode = "full" /\ run[j].page = {} /\ run[j].toList = {}
      /\ run[j].fetched = NothingFetched
  BY <1>1, <1>2 DEF Sound, Shape, Run
<1>7. Shape(run[j])'
  BY <1>4, <1>5, <1>6 DEF Shape
<1>8. Known(run[j])'
  BY <1>1, <1>4, <1>5, <1>6 DEF Known, TypeOK, MailboxTypeOK, mailboxVars
<1>9. ASSUME NEW m \in Visible PROVE Covers(run[j], m)'
  <2>1. m \in Messages /\ Covers(run[j], m) /\ Active(run[j])
    BY <1>1, <1>2 DEF Sound, Visible, TypeOK, MailboxTypeOK, Active
  <2>2. NothingFetched[m] = NoCopy
    BY <2>1 DEF NothingFetched
  <2>3. m \in run[j].dirty \/ rows[m] = mail[m]
    BY <2>1, <2>2, <1>1, <1>6 DEF Covers, Excused
  <2> QED
    BY <2>2, <2>3, <1>1, <1>4, <1>5, <1>6 DEF Covers, Excused, mailboxVars
<1>10. Sound(run[j])'
  BY <1>1, <1>7, <1>8, <1>9 DEF Sound, Visible, mailboxVars
<1> QED
  BY <1>1, <1>3, <1>10, NothingLost, QuietRunSteps

\* The record of a run: what it owes is what the new watermark leaves open.
LEMMA WatermarkInvSave ==
    ASSUME TypeOK, WatermarkInv, NEW j \in Jobs, SaveState(j)
    PROVE  WatermarkInv'
<1>1. /\ UNCHANGED <<mailboxVars, rows>>
      /\ run[j].pc = "save"
      /\ syncState'.hid = run[j].mark
      /\ missed' = IF run[j].mode = "full" THEN StillMissed(run[j]) ELSE missed
      /\ run' = [run EXCEPT ![j] = [@ EXCEPT !.pc = "snapshot"]]
  BY DEF SaveState
<1>2. run[j] \in Run /\ Sound(run[j])
  BY DEF WatermarkInv, TypeOK
<1>3. run[j].mark <= historyId
  BY <1>1, <1>2 DEF Sound, Known
<1>4. /\ run'[j].pc = "snapshot"
      /\ run'[j].fetched = run[j].fetched
      /\ run'[j].page = run[j].page
      /\ run'[j].mode = run[j].mode
      /\ run'[j].toList = run[j].toList
      /\ run'[j].dirty = run[j].dirty
  BY <1>1, <1>2 DEF Run, TypeOK
<1>5. run[j].page = {} /\ run[j].toList = {} /\ run[j].fetched = NothingFetched
  BY <1>1, <1>2 DEF Sound, Shape
<1>6. Sound(run[j])'
  BY <1>1, <1>2, <1>4 DEF Sound, Shape, Known, Covers, Active
<1>7. ASSUME NEW m \in Visible
      PROVE  \/ rows[m] = mail[m] \/ mail[m].ver > run[j].mark
             \/ run[j].mode = "full" /\ m \in run[j].dirty
             \/ run[j].mode = "incremental" /\ m \in missed
  <2>1. Covers(run[j], m) /\ Active(run[j])
    BY <1>1, <1>2 DEF Sound, Active
  <2>2. NothingFetched[m] = NoCopy
    BY DEF NothingFetched, Visible, TypeOK, MailboxTypeOK
  <2>3. run[j].mode = "incremental" => run[j].dirty = {}
    BY <1>2 DEF Sound, Shape
  <2>4. run[j].mode \in {"full", "incremental"}
    BY <1>2 DEF Run
  <2> QED
    BY <2>1, <2>2, <2>3, <2>4, <1>1, <1>5 DEF Covers, Excused
<1>8. \A m \in Visible : m \in missed => m \in missed' \/ rows'[m] = mail[m]
  BY <1>1, <1>7 DEF StillMissed
<1>9. NoSilentLoss'
  BY <1>1, <1>7 DEF NoSilentLoss, StillMissed, Visible, mailboxVars
<1>10. \A i \in Jobs \ {j} : run'[i] = PassedBy(run[i], {})
  BY <1>1, NotingKeepsRun DEF TypeOK
<1> QED
  BY <1>1, <1>3, <1>6, <1>8, <1>9, <1>10, OneRunSteps

-----------------------------------------------------------------------------
(* All steps.                                                              *)

\* Part of a broken manual run is committed: it stores answers, or none.
LEMMA WatermarkInvHalf ==
    ASSUME TypeOK, Sources, WatermarkInv, NEW j \in Manual,
           HalfBatchCommitted(j) \/ HalfRegistryCommitted(j) \/ HalfJunctionCommitted(j)
    PROVE  WatermarkInv'
<1>1. j \in Jobs
  BY DEF Manual
<1>2. CASE HalfBatchCommitted(j)
  <2>1. PICK ids \in SUBSET Got(run[j]) :
          /\ UpsertRows(run[j].fetched, ids)
          /\ ManualRunBreaks(j, Overwritten(run[j].fetched, ids))
    BY <1>2 DEF HalfBatchCommitted
  <2>2. Sound(run[j])'
    BY <1>1, <2>1, IdleIsSound DEF ManualRunBreaks, GoesOn
  <2> QED
    BY <1>1, <2>1, <2>2, StoringIsSound DEF ManualRunBreaks
<1>3. CASE HalfRegistryCommitted(j) \/ HalfJunctionCommitted(j)
  <2>1. ManualRunBreaks(j, {}) /\ UNCHANGED rows
    BY <1>3 DEF HalfRegistryCommitted, HalfJunctionCommitted
  <2>2. /\ run' = [run EXCEPT ![j] = IdleRun]
        /\ UNCHANGED <<mailboxVars, rows, syncState, missed>>
    <3>1. \A i \in Jobs : PassedBy(run[i], {}) = run[i]
      BY NotingKeepsRun DEF TypeOK
    <3> QED
      BY <2>1, <3>1 DEF ManualRunBreaks, GoesOn, TypeOK
  <2> QED
    BY <1>1, <2>2, WatermarkInvEnd
<1> QED
  BY <1>2, <1>3

\* At the start nothing is recorded and nobody runs.
LEMMA WatermarkInvInit == Init => WatermarkInv
<1> SUFFICES ASSUME Init PROVE WatermarkInv
  OBVIOUS
<1>1. \A j \in Jobs : run[j] = IdleRun
  BY DEF Init
<1>2. Sound(IdleRun)
  BY DEF Sound, Shape, Known, Covers, Active, IdleRun, NothingFetched
<1>3. \A m \in present : mail[m] # NoCopy
  BY DEF Init, MailboxInit, NoCopy
<1>4. syncState.hid <= historyId /\ NoSilentLoss
  BY DEF Init, MailboxInit, NoSilentLoss
<1> QED
  BY <1>1, <1>2, <1>3, <1>4 DEF WatermarkInv

\* However runs overlap, every step keeps what the watermark stands for.
LEMMA WatermarkInvNext ==
    ASSUME TypeOK, Sources, WatermarkInv, [Next]_vars
    PROVE  WatermarkInv'
<1>1. ASSUME NEW i \in Messages, MessageChanges(i)
      PROVE  WatermarkInv'
  <2>1. NewVersion(i) /\ present' \subseteq present \cup {i} /\ NoteChange(i)
    BY <1>1, ChangesGiveVersions DEF MessageChanges, Arrive, Relabel, TypeOK
  <2>2. UNCHANGED <<rows, syncState>>
    BY <1>1 DEF MessageChanges, dbVars
  <2> QED
    BY <2>1, <2>2, WatermarkInvChange
<1>2. ASSUME MailboxChanges \/ (\E l \in Labels : RegisterLabel(l)) \/ UNCHANGED vars
      PROVE  WatermarkInv'
  <2>1. /\ UNCHANGED <<mail, rows, syncState, run, missed>>
        /\ present' \subseteq present
        /\ historyId' \in Nat /\ historyId' >= historyId
    BY <1>2 DEF MailboxChanges, RegisterLabel, UpsertLabels, Expunge, CreateLabel,
       ForgetHistory, vars, dbVars, mailboxVars, TypeOK, MailboxTypeOK
  <2> QED
    BY <2>1, WatermarkInvQuiet
<1>3. ASSUME NEW j \in Jobs, BeginFull(j) \/ BeginIncremental(j)
      PROVE  WatermarkInv'
  BY <1>3, WatermarkInvBegin
<1>4. ASSUME NEW j \in Jobs,
             FetchGone(j) \/ HistoryExpired(j) \/ StepFails(j) \/ WriteSnapshot(j)
      PROVE  WatermarkInv'
  <2>1. /\ UNCHANGED <<mailboxVars, rows, syncState, missed>>
        /\ \E r \in {IdleRun, FullRun} : run' = [run EXCEPT ![j] = r]
    BY <1>4 DEF FetchGone, HistoryExpired, StepFails, WriteSnapshot, AfterError, dbVars
  <2> QED
    BY <2>1, WatermarkInvEnd
<1>5. ASSUME NEW j \in Jobs,
             ListPage(j) \/ HistoryPage(j) \/ (\E m \in Messages : Fetch(j, m))
             \/ StoreBatch(j) \/ SyncRegistry(j) \/ SelectLabels(j) \/ RebuildJunction(j)
             \/ GetProfile(j) \/ SaveState(j)
      PROVE  WatermarkInv'
  BY <1>5, WatermarkInvList, WatermarkInvHistory, WatermarkInvFetch,
     WatermarkInvStore, WatermarkInvRest, WatermarkInvSave
<1>6. ASSUME NEW j \in Manual,
             HalfBatchCommitted(j) \/ HalfRegistryCommitted(j) \/ HalfJunctionCommitted(j)
      PROVE  WatermarkInv'
  BY <1>6, WatermarkInvHalf
<1>7. ASSUME Crash PROVE WatermarkInv'
  <2>1. /\ \A j \in Jobs : run'[j] = IdleRun
        /\ UNCHANGED <<mailboxVars, rows, syncState, missed>>
    BY <1>7 DEF Crash, dbVars
  <2>2. \A j \in Jobs : Sound(run[j])'
    BY <2>1, IdleIsSound
  <2>3. NoSilentLoss' /\ syncState'.hid <= historyId
    BY <2>1, NothingLost
  <2> QED
    BY <2>1, <2>2, <2>3 DEF WatermarkInv, mailboxVars
<1> QED
  BY <1>1, <1>2, <1>3, <1>4, <1>5, <1>6, <1>7 DEF Next, Advance

\* Whatever fails or crashes, however the runs of any callers overlap and however
\* the mailbox moves meanwhile: every change up to the recorded watermark is in
\* the rows, but for those that overtook a full sync and those whose row a run
\* has set back to an older answer (sync_service.py).
THEOREM NothingIsLostSilently == Spec => []NoSilentLoss
<1>1. Init => TypeOK /\ Provenance /\ WatermarkInv
  BY TypeInit, ProvenanceInit, WatermarkInvInit
<1>2. TypeOK /\ Provenance /\ WatermarkInv /\ [Next]_vars
         => (TypeOK /\ Provenance /\ WatermarkInv)'
  BY TypeNext, ProvenanceNext, WatermarkInvNext DEF Provenance
<1>3. WatermarkInv => NoSilentLoss
  BY DEF WatermarkInv
<1> QED
  BY <1>1, <1>2, <1>3, PTL DEF Spec

=============================================================================
