-------------------------- MODULE SettingsHostProofs --------------------------
(***************************************************************************)
(* A settings command, for every set of items, firmwares, files, pages and *)
(* faults: what get returns is one moment's, it starts over only for a     *)
(* change, a command told to save leaves the values in the store, and one  *)
(* that ended well did what it says.                                       *)
(*                                                                         *)
(* Every change of the values counts the generation up, so within one boot *)
(* a generation names the values (PagesInv, StoreInv).  A lock that is lost*)
(* never comes back to the command, so what it read under its lock still   *)
(* holds at its end (SaveInv), and the requests it has left make what it   *)
(* says of the values now (WorkInv).                                       *)
(***************************************************************************)
EXTENDS SettingsHost, TLAPS, FiniteSetTheorems, SequenceTheorems

---------------------------------------------------------------------------
(* The pages. *)

\* What get has so far is where the values of now begin.
Prefix(c, d) == Len(out) \in 0..Len(Rows(c, d)) /\ out = SubSeq(Rows(c, d), 1, Len(out))

\* Within a boot, pages of the generation of now are a prefix of the values of now.
PagesInv ==
  /\ gen \in Nat \ {0} /\ boot \in Nat /\ first \in Nat /\ pages \in Nat /\ pages <= boot
  /\ decl \in Decls
  /\ first = 0 => out = <<>>
  /\ first # 0 /\ pages = boot => first <= gen
  /\ first = gen /\ pages = boot => Prefix(conf, decl)
  /\ ReadIsOneMoment

\* What get lists is a sequence.
LEMMA RowsSeq ==
  ASSUME NEW c, NEW d \in Decls
  PROVE  \E S : Rows(c, d) \in Seq(S)
<1> DEFINE ps == Places(c, d)
           n == Cardinality(ps)
           S == {Rows(c, d)[i] : i \in 1..n}
<1>1. Len(d) * Chans \in Int
  BY SettingsAssumption
<1>2. IsFiniteSet(1..(Len(d) * Chans))
  BY <1>1, FS_Interval
<1>3. ps \in SUBSET (1..(Len(d) * Chans))
  BY DEF Places
<1>4. n \in Nat
  BY <1>2, <1>3, FS_Subset, FS_CardinalityType
<1>5. DOMAIN Rows(c, d) = 1..n /\ Rows(c, d) = [i \in 1..n |-> Rows(c, d)[i]]
  BY DEF Rows
<1> HIDE DEF n
<1>6. Rows(c, d) \in [1..n -> S]
  BY <1>5
<1>7. Rows(c, d) \in Seq(S)
  BY <1>4, <1>6
<1> QED BY <1>7

\* A page after the pages before it is a longer beginning of the values.
LEMMA PagesJoin ==
  ASSUME NEW c, NEW d \in Decls, Prefix(c, d)
  PROVE  LET rows == out \o Page(Rows(c, d))
         IN /\ Len(rows) \in 0..Len(Rows(c, d))
            /\ rows = SubSeq(Rows(c, d), 1, Len(rows))
            /\ Len(rows) >= Len(Rows(c, d)) => rows = Rows(c, d)
<1> DEFINE now == Rows(c, d)
           k == Len(out)
           n == IF k + PerPage < Len(now) THEN k + PerPage ELSE Len(now)
           rows == out \o Page(now)
<1>1. PICK S : now \in Seq(S)
  BY RowsSeq
<1> HIDE DEF now
<1>2. Len(now) \in Nat /\ k \in 0..Len(now) /\ out = SubSeq(now, 1, k)
  BY <1>1 DEF Prefix, now
<1> HIDE DEF k
<1>3. n \in k..Len(now)
  BY <1>2, SettingsAssumption
<1>4. Page(now) = SubSeq(now, k + 1, n)
  BY DEF Page, k
<1> HIDE DEF n
<1>5. SubSeq(now, 1, k) \o SubSeq(now, k + 1, n) = SubSeq(now, 1, n)
  BY <1>1, <1>2, <1>3, ConcatAdjacentSubSeq
<1>6. rows = SubSeq(now, 1, n)
  BY <1>2, <1>4, <1>5
<1>7. Len(SubSeq(now, 1, n)) = n
  <2>1. n \in Int /\ 0 <= n /\ n <= Len(now)
    BY <1>2, <1>3
  <2>2. \A i \in 1..n : now[i] \in S
    BY <1>1, <2>1
  <2>3. Len(SubSeq(now, 1, n)) = IF 1 <= n THEN n - 1 + 1 ELSE 0
    BY <2>1, <2>2, SubSeqProperties
  <2> QED BY <2>1, <2>3
<1>8. n = Len(now) => SubSeq(now, 1, n) = now
  BY <1>1, SubSeqFull
<1> HIDE DEF rows
<1>9. Len(rows) = n
  BY <1>6, <1>7
<1>10. n \in 0..Len(now) /\ (n >= Len(now) => n = Len(now))
  BY <1>2, <1>3
<1>11. /\ Len(rows) \in 0..Len(now)
       /\ rows = SubSeq(now, 1, Len(rows))
       /\ Len(rows) >= Len(now) => rows = now
  BY <1>6, <1>8, <1>9, <1>10
<1> QED BY <1>11 DEF now, rows

\* An empty beginning is one.
LEMMA NothingRead ==
  ASSUME NEW c, NEW d \in Decls, out = <<>>
  PROVE  Prefix(c, d)
<1>1. PICK S : Rows(c, d) \in Seq(S)
  BY RowsSeq
<1>2. Len(Rows(c, d)) \in Nat
  BY <1>1
<1>3. SubSeq(Rows(c, d), 1, 0) = <<>>
  BY SubSeqEmpty
<1> QED BY <1>2, <1>3 DEF Prefix

\* The values change and the generation with them, or they stay.
Moved == (conf' = conf /\ gen' = gen) \/ gen' = gen + 1

\* A step that leaves the host's pages alone, whatever the values do.
LEMMA PagesUndisturbed ==
  ASSUME PagesInv, Moved, UNCHANGED <<decl, boot, first, out, pages, read>>
  PROVE  PagesInv'
<1>1. CASE conf' = conf /\ gen' = gen
  BY <1>1 DEF PagesInv, Prefix, ReadIsOneMoment
<1>2. CASE gen' = gen + 1
  <2>1. first' # 0 /\ pages' = boot' => first' < gen'
    BY <1>2 DEF PagesInv
  <2>2. ~(first' = gen' /\ pages' = boot')
    BY <1>2, <2>1 DEF PagesInv
  <2> QED BY <1>2, <2>1, <2>2 DEF PagesInv, ReadIsOneMoment
<1> QED BY <1>1, <1>2 DEF Moved

\* A page is kept with the others, ends the reading or starts it over.
LEMMA PageRead ==
  ASSUME PagesInv, ReadPage
  PROVE  PagesInv'
<1> DEFINE now == Rows(conf, decl)
           rows == out \o Page(now)
           began == IF first = 0 THEN boot ELSE pages
<1>1. UNCHANGED <<decl, boot, conf, gen>>
  BY DEF ReadPage, probeVars
<1>2. CASE StartOver /\ Again /\ UNCHANGED read
  BY <1>1, <1>2 DEF Again, PagesInv, ReadIsOneMoment
<1>3. ~StartOver /\ began = boot => Prefix(conf, decl)
  <2>1. CASE first = 0
    BY <2>1, NothingRead DEF PagesInv
  <2>2. CASE first # 0
    BY <2>2 DEF StartOver, PagesInv
  <2> QED BY <2>1, <2>2
<1>4. began \in Nat /\ began <= boot
  BY DEF PagesInv
<1>5. CASE ~StartOver /\ out' = rows /\ first' = gen /\ pages' = began /\ UNCHANGED read
  <2>1. pages' = boot => Len(rows) \in 0..Len(now) /\ rows = SubSeq(now, 1, Len(rows))
    BY <1>3, <1>5, PagesJoin DEF PagesInv
  <2>2. pages' = boot => Prefix(conf, decl)'
    BY <1>1, <1>5, <2>1 DEF Prefix
  <2> QED BY <1>1, <1>4, <1>5, <2>2 DEF PagesInv, ReadIsOneMoment
<1>6. CASE /\ ~StartOver /\ Len(rows) >= Len(now)
           /\ out' = <<>> /\ first' = 0 /\ pages' = began
           /\ read' = [rows |-> rows, whole |-> began = boot, conf |-> conf, decl |-> decl]
  <2>1. began = boot => rows = now
    BY <1>3, <1>6, PagesJoin DEF PagesInv
  <2>2. ReadIsOneMoment'
    BY <1>6, <2>1 DEF ReadIsOneMoment
  <2> QED BY <1>1, <1>4, <1>6, <2>2 DEF PagesInv
<1> QED BY <1>2, <1>5, <1>6 DEF ReadPage

\* A restart: pages of a boot before are nobody's.
LEMMA PagesRestart ==
  ASSUME PagesInv, Reboot
  PROVE  PagesInv'
<1>1. /\ boot' = boot + 1 /\ gen' = 1 /\ decl' \in Decls
      /\ UNCHANGED <<first, out, pages, read>>
  BY DEF Reboot, hostVars
<1> QED BY <1>1 DEF PagesInv, ReadIsOneMoment

\* PagesInv holds after every step.
LEMMA PagesStep == PagesInv /\ [Next]_vars => PagesInv'
<1> SUFFICES ASSUME PagesInv, [Next]_vars PROVE PagesInv'
  OBVIOUS
<1> USE PagesUndisturbed
<1>1. CASE Begin
  BY <1>1 DEF Begin, Moved, probeVars, pastVars
<1>2. CASE Answer
  BY <1>2 DEF Answer, Moved, probeVars, pastVars
<1>3. CASE Take
  BY <1>3 DEF Take, Moved
<1>4. CASE Resolve
  BY <1>4 DEF Resolve, Moved, probeVars, pastVars
<1>5. CASE Send
  BY <1>5 DEF Send, Change, Moved, pastVars
<1>6. CASE ReadState
  BY <1>6 DEF ReadState, Moved, probeVars, pastVars
<1>7. CASE Save
  BY <1>7 DEF Save, Moved, pastVars
<1>8. CASE End
  BY <1>8 DEF End, Moved, pastVars
<1>9. CASE Break
  BY <1>9 DEF Break, Moved, probeVars, pastVars
<1>10. CASE Lapse
  BY <1>10 DEF Lapse, Moved, hostVars, pastVars
<1>11. CASE OtherTakes
  BY <1>11 DEF OtherTakes, Moved, hostVars, pastVars
<1>12. CASE OtherChanges
  BY <1>12 DEF OtherChanges, Change, Moved, hostVars
<1>13. CASE OtherSaves
  BY <1>13 DEF OtherSaves, Moved, hostVars, pastVars
<1>14. CASE UNCHANGED vars
  BY <1>14 DEF vars, Moved, probeVars, hostVars, pastVars
<1> QED BY <1>1, <1>2, <1>3, <1>4, <1>5, <1>6, <1>7, <1>8, <1>9, <1>10, <1>11, <1>12, <1>13,
           <1>14, PageRead, PagesRestart DEF Next

\* Nothing is read yet.
LEMMA PagesInit == Init => PagesInv
BY DEF Init, PagesInv, ReadIsOneMoment

\* What get returns is the probe's values of one moment, unless the probe restarted under it.
THEOREM OneMomentRead == Spec => []ReadIsOneMoment
<1>1. PagesInv => ReadIsOneMoment
  BY DEF PagesInv
<1> QED BY <1>1, PagesInit, PagesStep, PTL DEF Spec

---------------------------------------------------------------------------
(* Starting over. *)

\* A read has a generation only while it reads, and starts over for a change only.
AgainInv ==
  /\ again \in Nat /\ moves \in Nat
  /\ at \notin Reading \cup {"rest"} => first = 0
  /\ StartsOverForChange

\* A step between readings: nothing is begun, so nothing starts over.
LEMMA AgainOutside ==
  ASSUME AgainInv, first = 0, UNCHANGED <<first, again, moves>>
  PROVE  AgainInv'
BY DEF AgainInv, StartsOverForChange, StartOver

\* A step of the others: a change under a reading is counted.
LEMMA AgainMoved ==
  ASSUME AgainInv, Moves, UNCHANGED <<at, first, again>>
  PROVE  AgainInv'
<1>1. CASE first = 0
  BY <1>1 DEF AgainInv, StartsOverForChange, StartOver, Moves
<1>2. CASE first # 0 /\ gen' = gen
  BY <1>2 DEF AgainInv, StartsOverForChange, StartOver, Moves
<1>3. CASE first # 0 /\ gen' # gen
  BY <1>3 DEF AgainInv, StartsOverForChange, StartOver, Moves
<1> QED BY <1>1, <1>2, <1>3

\* A page: starting over uses up the change it is for.
LEMMA AgainRead ==
  ASSUME AgainInv, ReadPage
  PROVE  AgainInv'
<1>1. CASE StartOver /\ Again /\ UNCHANGED at
  BY <1>1 DEF Again, AgainInv, StartsOverForChange, StartOver
<1>2. CASE ~StartOver /\ first' = gen /\ UNCHANGED <<at, again, moves>>
  <2>1. at \in Reading /\ gen' = gen
    BY DEF ReadPage, probeVars
  <2> QED BY <1>2, <2>1 DEF AgainInv, StartsOverForChange, StartOver
<1>3. CASE first' = 0 /\ again' = 0 /\ moves' = 0
  BY <1>3 DEF AgainInv, StartsOverForChange, StartOver
<1> QED BY <1>1, <1>2, <1>3 DEF ReadPage

\* AgainInv holds after every step.
LEMMA AgainStep == AgainInv /\ [Next]_vars => AgainInv'
<1> SUFFICES ASSUME AgainInv, [Next]_vars PROVE AgainInv'
  OBVIOUS
<1>1. CASE Begin
  BY <1>1, AgainOutside DEF Begin, AgainInv, Reading, pastVars
<1>2. CASE Answer
  BY <1>2, AgainOutside DEF Answer, AgainInv, Reading, pastVars
<1>3. CASE Take
  BY <1>3, AgainOutside DEF Take, AgainInv, Reading
<1>4. CASE Resolve
  BY <1>4, AgainOutside DEF Resolve, AgainInv, Reading, pastVars
<1>5. CASE Send
  BY <1>5, AgainOutside DEF Send, AgainInv, Reading, pastVars
<1>6. CASE ReadState
  BY <1>6, AgainOutside DEF ReadState, AgainInv, Reading, pastVars
<1>7. CASE Save
  BY <1>7, AgainOutside DEF Save, AgainInv, Reading, pastVars
<1>8. CASE End
  BY <1>8, AgainOutside DEF End, AgainInv, Reading, pastVars
<1>9. CASE Break
  BY <1>9 DEF Break, Finish, AgainInv, StartsOverForChange, StartOver, probeVars, pastVars
<1>10. CASE Lapse
  BY <1>10 DEF Lapse, AgainInv, StartsOverForChange, StartOver, hostVars, pastVars
<1>11. CASE OtherTakes
  BY <1>11 DEF OtherTakes, AgainInv, StartsOverForChange, StartOver, hostVars, pastVars
<1>12. CASE OtherChanges
  BY <1>12, AgainMoved DEF OtherChanges, hostVars
<1>13. CASE OtherSaves
  BY <1>13 DEF OtherSaves, AgainInv, StartsOverForChange, StartOver, hostVars, pastVars
<1>14. CASE Reboot
  BY <1>14, AgainMoved DEF Reboot, hostVars
<1>15. CASE UNCHANGED vars
  BY <1>15 DEF vars, AgainInv, StartsOverForChange, StartOver, probeVars, hostVars, pastVars
<1> QED BY <1>1, <1>2, <1>3, <1>4, <1>5, <1>6, <1>7, <1>8, <1>9, <1>10, <1>11, <1>12, <1>13,
           <1>14, <1>15, AgainRead DEF Next

\* A read starts over no more often than the values changed under it.
THEOREM ReadsEnd == Spec => []StartsOverForChange
<1>1. Init => AgainInv
  BY DEF Init, AgainInv, StartsOverForChange, StartOver
<1>2. AgainInv => StartsOverForChange
  BY DEF AgainInv
<1> QED BY <1>1, <1>2, AgainStep, PTL DEF Spec

---------------------------------------------------------------------------
(* The save. *)

\* What state tells of the store: kept values of this generation are the values now.
StoreInv ==
  /\ gen \in Nat \ {0}
  /\ saved = [is |-> saved.is, conf |-> saved.conf]
  /\ storage.is = "kept" =>
       /\ saved.is = "kept" /\ storage.gen \in Nat /\ storage.gen <= gen
       /\ storage.gen = gen => saved.conf = conf

\* The command that still has its lock: what state told is so, and at its end the values are saved.
SaveInv ==
  /\ StoreInv
  /\ at = "check" /\ holder = "host" => told = storage
  /\ at = "end" /\ holder = "host" /\ result # "refused" /\ job.save => saved = [is |-> "kept", conf |-> conf]

\* A boot applies what is kept.
LEMMA BootTold ==
  ASSUME NEW s, s = [is |-> s.is, conf |-> s.conf], NEW d
  PROVE  BootStorage(s, d).is = "kept" =>
           s.is = "kept" /\ BootStorage(s, d).gen = 1 /\ s.conf = BootConf(s, d)
<1>1. CASE s.is # "kept"
  BY <1>1 DEF BootStorage
<1>2. CASE s.is = "kept" /\ TakenBy(d, s.conf) = s.conf
  BY <1>2 DEF BootStorage, BootConf
<1>3. CASE s.is = "kept" /\ TakenBy(d, s.conf) # s.conf
  BY <1>3 DEF BootStorage
<1> QED BY <1>1, <1>2, <1>3

\* A change of the values leaves the saved generation behind.
LEMMA StoreMoved ==
  ASSUME StoreInv, Moved, UNCHANGED <<saved, storage>>
  PROVE  StoreInv'
<1>1. CASE conf' = conf /\ gen' = gen
  BY <1>1 DEF StoreInv
<1>2. CASE gen' = gen + 1
  BY <1>2 DEF StoreInv
<1> QED BY <1>1, <1>2 DEF Moved

\* A save that completes, and one that fails.
LEMMA StoreStored ==
  ASSUME StoreInv, NEW how \in {"saved", "old", "none", "unreadable"}, Store(how), UNCHANGED <<conf, gen>>
  PROVE  StoreInv'
<1>1. CASE how = "saved"
  BY <1>1 DEF Store, StoreInv
<1>2. CASE how = "old"
  BY <1>2 DEF Store, StoreInv
<1>3. CASE how \in {"none", "unreadable"}
  BY <1>3 DEF Store, StoreInv
<1> QED BY <1>1, <1>2, <1>3

\* The host reads: values that state told to be saved are.
LEMMA SaveRead ==
  ASSUME SaveInv, ReadPage
  PROVE  SaveInv'
<1>1. StoreInv' /\ UNCHANGED <<holder, storage, saved, conf, gen, told, job>>
  BY StoreMoved DEF ReadPage, probeVars, SaveInv, Moved
<1>2. CASE UNCHANGED <<at, result>>
  <2>1. at # "end"
    BY DEF ReadPage, Reading
  <2> QED BY <1>1, <1>2, <2>1 DEF SaveInv
<1>3. CASE at' \in {"rest", "take", "ask"}
  BY <1>1, <1>3 DEF SaveInv
<1>4. CASE \E rows : AllAway(rows)
  BY <1>1, <1>4 DEF AllAway, Saving, SaveInv
<1>5. CASE at = "check" /\ Checked(gen)
  <2>1. CASE told.is = "kept" /\ told.gen = gen
    <3>1. holder = "host" => saved = [is |-> "kept", conf |-> conf]
      BY <1>5, <2>1 DEF SaveInv, StoreInv
    <3> QED BY <1>1, <1>5, <2>1, <3>1 DEF Checked, SaveInv
  <2>2. CASE ~(told.is = "kept" /\ told.gen = gen)
    BY <1>1, <1>5, <2>2 DEF Checked, SaveInv
  <2> QED BY <2>1, <2>2
<1>6. CASE \E rows : Planned(rows)
  BY <1>1, <1>3, <1>6 DEF Planned, Finish
<1> QED BY <1>2, <1>4, <1>5, <1>6 DEF ReadPage

\* The host saves.
LEMMA SaveSaved ==
  ASSUME SaveInv, Save
  PROVE  SaveInv'
<1>1. UNCHANGED <<conf, gen, holder, job>>
  BY DEF Save
<1>2. ASSUME NEW how \in {"saved", "old", "none", "unreadable"}, Store(how),
             IF how = "saved" THEN at' = "end" /\ UNCHANGED result ELSE Refused
      PROVE  SaveInv'
  <2>1. StoreInv'
    BY <1>1, <1>2, StoreStored DEF SaveInv
  <2>2. CASE how = "saved"
    BY <1>1, <1>2, <2>1, <2>2 DEF Store, SaveInv
  <2>3. CASE how # "saved"
    BY <1>2, <2>1, <2>3 DEF Refused, SaveInv
  <2> QED BY <2>2, <2>3
<1>3. CASE Refused /\ UNCHANGED <<saved, storage>>
  BY <1>1, <1>3, StoreMoved DEF Refused, SaveInv, Moved
<1> QED BY <1>2, <1>3 DEF Save

\* A step that leaves the values and the store, and the command where it is or away from both ends.
LEMMA SaveUndisturbed ==
  ASSUME SaveInv, UNCHANGED <<conf, gen, saved, storage>>,
         \/ at' \notin {"check", "end"}
         \/ at' = "end" /\ result' = "refused"
         \/ at' = "end" /\ ~job'.save
         \/ UNCHANGED <<at, told, job, result>> /\ (holder' = "host" => holder = "host")
  PROVE  SaveInv'
<1>1. StoreInv'
  BY StoreMoved DEF SaveInv, Moved
<1> QED BY <1>1 DEF SaveInv

\* A step of the others while they have the lock, or of the probe that frees it.
LEMMA SaveOthers ==
  ASSUME SaveInv, StoreInv', holder' # "host"
  PROVE  SaveInv'
BY DEF SaveInv

\* SaveInv holds after every step.
LEMMA SaveStep == SaveInv /\ [Next]_vars => SaveInv'
<1> SUFFICES ASSUME SaveInv, [Next]_vars PROVE SaveInv'
  OBVIOUS
<1>1. CASE Begin
  BY <1>1, SaveUndisturbed DEF Begin, probeVars
<1>2. CASE Answer
  BY <1>2, SaveUndisturbed DEF Answer, Finish, probeVars
<1>3. CASE Take
  <2>1. at' \notin {"check", "end"} \/ (at' = "end" /\ ~job'.save)
    BY <1>3 DEF Take, Finish, Saving
  <2> QED BY <1>3, <2>1, SaveUndisturbed DEF Take
<1>4. CASE Resolve
  BY <1>4, SaveUndisturbed DEF Resolve, Refused, probeVars
<1>5. CASE Send
  <2>1. StoreInv'
    BY <1>5, StoreMoved DEF Send, Change, Moved, SaveInv
  <2>2. at' \notin {"check", "end"} \/ (at' = "end" /\ (result' = "refused" \/ ~job'.save))
    BY <1>5 DEF Send, Refused, Saving
  <2> QED BY <2>1, <2>2 DEF SaveInv
<1>6. CASE ReadState
  <2>1. StoreInv' /\ told' = storage /\ storage' = storage /\ at' = "check"
    BY <1>6, StoreMoved DEF ReadState, Moved, SaveInv, probeVars
  <2> QED BY <2>1 DEF SaveInv
<1>7. CASE End
  BY <1>7, SaveUndisturbed DEF End, Finish
<1>8. CASE Break
  BY <1>8, SaveUndisturbed DEF Break, Finish, probeVars
<1>9. CASE Lapse
  BY <1>9, SaveUndisturbed DEF Lapse, hostVars
<1>10. CASE OtherTakes
  BY <1>10, SaveUndisturbed DEF OtherTakes, hostVars
<1>11. CASE OtherChanges
  <2>1. StoreInv' /\ holder' # "host"
    BY <1>11, StoreMoved DEF OtherChanges, Change, Moved, SaveInv
  <2> QED BY <2>1, SaveOthers
<1>12. CASE OtherSaves
  <2>1. StoreInv' /\ holder' # "host"
    BY <1>12, StoreStored DEF OtherSaves, SaveInv
  <2> QED BY <2>1, SaveOthers
<1>13. CASE Reboot
  <2>1. /\ gen' = 1 /\ holder' = "none" /\ saved' = saved
        /\ conf' = BootConf(saved, decl') /\ storage' = BootStorage(saved, decl')
    BY <1>13 DEF Reboot
  <2>2. StoreInv'
    BY <2>1, BootTold DEF SaveInv, StoreInv
  <2> QED BY <2>1, <2>2, SaveOthers
<1>14. CASE UNCHANGED vars
  BY <1>14, SaveUndisturbed DEF vars, probeVars, hostVars
<1> QED BY <1>1, <1>2, <1>3, <1>4, <1>5, <1>6, <1>7, <1>8, <1>9, <1>10, <1>11, <1>12, <1>13,
           <1>14, SaveRead, SaveSaved DEF Next

\* The first boot.
LEMMA SaveInit == Init => SaveInv
<1> SUFFICES ASSUME Init PROVE SaveInv
  OBVIOUS
<1>1. saved = [is |-> saved.is, conf |-> saved.conf]
  BY SettingsAssumption DEF Init, FirstSave
<1>2. gen = 1 /\ conf = BootConf(saved, decl) /\ storage = BootStorage(saved, decl) /\ at = "idle"
  BY DEF Init
<1>3. StoreInv
  BY <1>1, <1>2, BootTold DEF StoreInv
<1> QED BY <1>2, <1>3 DEF SaveInv

\* A command told to save that ends well has its lock to the end, and ends with the values saved.
LEMMA SaveDone == SaveInv /\ [Next]_vars => (Done /\ job.save => saved = [is |-> "kept", conf |-> conf])
<1> SUFFICES ASSUME SaveInv, [Next]_vars, Done, job.save
             PROVE  saved = [is |-> "kept", conf |-> conf]
  OBVIOUS
<1>1. at # "rest" /\ at' = "rest" /\ result' = "ok"
  BY DEF Done
<1>2. CASE End
  BY <1>1, <1>2 DEF End, Finish, SaveInv
<1>3. ~ReadPage
  BY <1>1 DEF ReadPage, Planned, AllAway, Checked, Saving, Finish, Reading
<1>4. ~Begin /\ ~ReadState /\ ~Send /\ ~Resolve /\ ~Save
  BY <1>1 DEF Begin, ReadState, Send, Resolve, Save, Refused, Saving
<1>5. ~Answer /\ ~Take /\ ~Break
  BY <1>1 DEF Answer, Take, Break, Finish, Saving
<1>6. ~Lapse /\ ~OtherTakes /\ ~OtherChanges /\ ~OtherSaves /\ ~Reboot /\ ~UNCHANGED vars
  BY <1>1 DEF Lapse, OtherTakes, OtherChanges, OtherSaves, Reboot, vars, hostVars
<1> QED BY <1>2, <1>3, <1>4, <1>5, <1>6 DEF Next

\* A command told to save that ended well left its values in the store.
THEOREM SaveTold == Spec => SavedAsTold
<1> QED BY SaveInit, SaveStep, SaveDone, PTL DEF Spec, SavedAsTold

---------------------------------------------------------------------------
(* What is done. *)

\* A request, as it goes out.
WireRow == [n : Nat, ch : 1..Chans, v : Int]
Request == [op : {"set", "unset"}, rows : Seq(WireRow)]
\* What a row of a request gives its key.
Gives(op, row) == IF op = "set" THEN row.v ELSE NoValue
At(d, row) == <<d[row.n], row.ch>>

\* The requests q make the values G of c, for the keys K: whatever they name gets its value of G, and
\* what they do not name has it.  No two of them differ about a key, so their order is no matter.
Makes(q, d, K, c, G) ==
  /\ \A b \in DOMAIN q : \A i \in DOMAIN q[b].rows :
       LET row == q[b].rows[i]
       IN row.n \in DOMAIN d /\ At(d, row) \in K /\ G[At(d, row)] = Gives(q[b].op, row)
  /\ \A k \in K : c[k] = G[k] \/ \E b \in DOMAIN q : \E i \in DOMAIN q[b].rows : At(d, q[b].rows[i]) = k

\* Only items of this firmware have values.
Declared(c, d) == \A k \in Key : c[k] # NoValue => Declares(d, k[1])

Plan == [unsets : Seq(WireRow), sets : Seq(WireRow)]

\* The values are ones this firmware has, the requests ones it can be sent, and the names the host
\* read in this boot are this firmware's.
TypesInv ==
  /\ conf \in Conf /\ saved.conf \in Conf /\ decl \in Decls /\ job \in Commands /\ boot \in Nat \ {0}
  /\ Declared(conf, decl)
  /\ cat.boot \in 0..boot /\ (cat.boot = boot => cat.decl = decl)
  /\ at = "plan" => cat.decl \in Decls
  /\ out \in Seq(WireRow) /\ plan \in Plan /\ todo \in Seq(Request)
  /\ at = "send" => todo # <<>>

\* Where an import's plan comes from: in one boot it makes the file's values of those it found.
PlanInv ==
  /\ at \in {"plan", "ask"} => job.cmd = "import"
  /\ at = "all" => job.cmd = "clear"
  /\ at = "resolve" => job.cmd = "set"
  /\ at = "plan" /\ first # 0 => cat.boot <= pages
  /\ at = "all" /\ holder = "host" /\ first # 0 => pages = boot
  /\ at \in {"ask", "take"} /\ job.cmd = "import" /\ cat.boot = boot =>
       Makes(Requests(plan), cat.decl, Key, found, FileMakes(cat.decl, job.file, found))

Working == {"send", "state", "check", "save", "end"}
\* What a command is to make of the values, and of which.
Due == IF job.cmd = "set" THEN Names(job.file) ELSE Key
Goal ==
  CASE job.cmd = "import" -> FileMakes(cat.decl, job.file, taken)
    [] job.cmd = "clear" -> Empty
    [] OTHER -> [k \in Names(job.file) |-> Entry(job.file, k).v]
\* The command says of its end what it did.
Speaks == job.cmd # "keep" /\ (job.cmd = "import" => cat.boot = boot /\ taken = found)

\* While it has its lock, the requests left make what it says of the values now.
WorkInv ==
  at \in Working /\ holder = "host" /\ result # "refused" /\ Speaks =>
    /\ at # "send" => todo = <<>>
    /\ Makes(todo, decl, Due, conf, Goal)

DoneInv == TypesInv /\ PlanInv /\ WorkInv

---------------------------------------------------------------------------
(* What get lists. *)

\* A nonempty set of naturals has a least element.
LEMMA LeastOf ==
  ASSUME NEW T, T \subseteq Nat, T # {}
  PROVE  \E m \in T : \A x \in T : m <= x
<1>1. PICK m \in T : \A x \in T : ~ (<<x, m>> \in OpToRel(<, Nat))
  BY NatLessThanWellFounded, WFMin
<1>2. ASSUME NEW x \in T PROVE m <= x
  <2>1. ~ (<<x, m>> \in {ss \in Nat \X Nat : ss[1] < ss[2]})
    BY <1>1, Zenon DEF OpToRel
  <2> QED BY <2>1
<1> QED BY <1>2

\* The quotient and the remainder of a natural.
LEMMA Dividing ==
  ASSUME NEW a \in Nat, NEW b \in Nat \ {0}
  PROVE  a \div b \in Nat /\ a % b \in 0..(b - 1) /\ a = (a \div b) * b + (a % b)
<1>1. a \div b \in Nat
  OBVIOUS
<1>2. a % b \in 0..(b - 1)
  OBVIOUS
<1>3. a = (a \div b) * b + (a % b)
  OBVIOUS
<1> QED BY <1>1, <1>2, <1>3

\* They are the only ones.
LEMMA Divided ==
  ASSUME NEW b \in Nat \ {0}, NEW q \in Nat, NEW r \in 0..(b - 1)
  PROVE  (q * b + r) \div b = q /\ (q * b + r) % b = r
<1>1. (q * b + r) \div b = q
  OBVIOUS
<1>2. (q * b + r) % b = r
  OBVIOUS
<1> QED BY <1>1, <1>2

\* A place of get's order is one of the firmware's numbers, and a channel.
LEMMA PlaceIn ==
  ASSUME NEW d \in Decls, NEW p \in 1..(Len(d) * Chans)
  PROVE  Place(p).n \in DOMAIN d /\ Place(p).ch \in 1..Chans
<1>1. PICK l \in Nat : l = Len(d) /\ DOMAIN d = 1..l
  BY SettingsAssumption
<1>2. Chans \in Nat \ {0}
  BY <1>1, SettingsAssumption
<1>3. PICK a \in Nat : a = p - 1 /\ a < l * Chans
  BY <1>1, <1>2
<1>4. PICK q \in Nat, r \in 0..(Chans - 1) : q = a \div Chans /\ r = a % Chans /\ a = q * Chans + r
  BY <1>2, Dividing
<1>5. q < l
  <2> SUFFICES ASSUME l <= q PROVE FALSE
    BY <1>4
  <2>1. l * Chans <= q * Chans
    BY <1>2
  <2>2. q * Chans <= a
    BY <1>2, <1>4
  <2>3. l * Chans \in Nat /\ q * Chans \in Nat
    BY <1>2
  <2> QED BY <1>3, <2>1, <2>2, <2>3
<1>6. Place(p) = [n |-> q + 1, ch |-> r + 1]
  BY <1>3, <1>4 DEF Place
<1>7. q + 1 \in 1..l /\ r + 1 \in 1..Chans
  BY <1>2, <1>5
<1> QED BY <1>1, <1>6, <1>7

\* And each number has a place for each channel.
LEMMA PlaceHas ==
  ASSUME NEW d \in Decls, NEW n \in DOMAIN d, NEW ch \in 1..Chans
  PROVE  \E p \in 1..(Len(d) * Chans) : Place(p) = [n |-> n, ch |-> ch]
<1>1. PICK l \in Nat : l = Len(d) /\ n \in 1..l
  BY SettingsAssumption
<1>2. Chans \in Nat \ {0}
  BY SettingsAssumption
<1>3. PICK q \in Nat, r \in 0..(Chans - 1) : q = n - 1 /\ r = ch - 1 /\ q + 1 <= l
  BY <1>1, <1>2
<1> DEFINE a == q * Chans + r
<1>4. a \in Nat /\ a \div Chans = q /\ a % Chans = r
  <2>1. q * Chans \in Nat
    BY <1>2
  <2> QED BY <1>2, <2>1, Divided
<1>5. a < l * Chans
  <2>1. (q + 1) * Chans <= l * Chans
    BY <1>2, <1>3
  <2>2. (q + 1) * Chans = q * Chans + Chans
    BY <1>2
  <2>3. q * Chans \in Nat /\ l * Chans \in Nat
    BY <1>2
  <2> QED BY <1>2, <2>1, <2>2, <2>3
<1> HIDE DEF a
<1>6. l * Chans \in Nat
  BY <1>2
<1>7. a + 1 \in 1..(l * Chans) /\ (a + 1) - 1 = a
  BY <1>4, <1>5, <1>6
<1>8. Place(a + 1) = [n |-> n, ch |-> ch]
  <2>1. q + 1 = n /\ r + 1 = ch
    BY <1>1, <1>2, <1>3
  <2> QED BY <1>4, <1>7, <2>1 DEF Place
<1> QED BY <1>1, <1>7, <1>8

\* Nth goes through a set of places, each of them once.
LEMMA NthGoesThrough ==
  ASSUME NEW m \in Int, NEW ps \in SUBSET (1..m)
  PROVE  /\ Cardinality(ps) \in Nat
         /\ \A i \in 1..Cardinality(ps) : Nth(ps, i) \in ps
         /\ \A p \in ps : \E i \in 1..Cardinality(ps) : Nth(ps, i) = p
<1> DEFINE upTo(p) == {q \in ps : q <= p}
           n == Cardinality(ps)
           f == [p \in ps |-> Cardinality(upTo(p))]
<1>1. IsFiniteSet(ps) /\ n \in Nat
  <2>1. IsFiniteSet(1..m)
    BY FS_Interval
  <2>2. IsFiniteSet(ps)
    BY <2>1, FS_Subset
  <2> QED BY <2>2, FS_CardinalityType
<1>2. ASSUME NEW p \in ps
      PROVE  IsFiniteSet(upTo(p)) /\ Cardinality(upTo(p)) \in 1..n
  <2>1. upTo(p) \in SUBSET ps
    OBVIOUS
  <2>2. IsFiniteSet(upTo(p)) /\ Cardinality(upTo(p)) <= n /\ Cardinality(upTo(p)) \in Nat
    BY <1>1, <2>1, FS_Subset, FS_CardinalityType
  <2>3. p \in upTo(p)
    OBVIOUS
  <2>4. Cardinality(upTo(p)) # 0
    BY <2>2, <2>3, FS_EmptySet
  <2> HIDE DEF n
  <2> QED BY <1>1, <2>2, <2>4
<1>3. ASSUME NEW p \in ps, NEW q \in ps, p < q
      PROVE  Cardinality(upTo(p)) # Cardinality(upTo(q))
  <2>a. p \in Int /\ q \in Int /\ \A x \in ps : x \in Int
    OBVIOUS
  <2>b. ASSUME NEW x \in ps, x <= p PROVE x <= q
    BY <1>3, <2>a, <2>b
  <2>c. upTo(p) \in SUBSET upTo(q)
    BY <2>b
  <2>d. q \in upTo(q) /\ q \notin upTo(p)
    BY <1>3, <2>a
  <2>1. upTo(p) \in SUBSET upTo(q) /\ q \in upTo(q) /\ q \notin upTo(p)
    BY <2>c, <2>d
  <2>2. IsFiniteSet(upTo(q))
    BY <1>2
  <2> HIDE DEF upTo
  <2> QED BY <2>1, <2>2, FS_Subset
<1>4. \A p, q \in ps : Cardinality(upTo(p)) = Cardinality(upTo(q)) => p = q
  <2> SUFFICES ASSUME NEW p \in ps, NEW q \in ps, p # q PROVE Cardinality(upTo(p)) # Cardinality(upTo(q))
    BY Zenon
  <2>1. p < q \/ q < p
    OBVIOUS
  <2> HIDE DEF upTo
  <2> QED BY <2>1, <1>3
<1>5. \A i, p : p \in ps /\ Cardinality(upTo(p)) = i => Nth(ps, i) = p
  <2> SUFFICES ASSUME NEW i, NEW p \in ps, Cardinality(upTo(p)) = i PROVE Nth(ps, i) = p
    BY Zenon
  <2>1. Nth(ps, i) = CHOOSE q \in ps : Cardinality(upTo(q)) = i
    BY DEF Nth
  <2> HIDE DEF upTo
  <2>2. Nth(ps, i) \in ps /\ Cardinality(upTo(Nth(ps, i))) = i
    BY <2>1, Zenon
  <2> QED BY <2>2, <1>4, Zenon
<1>6. f \in Injection(ps, 1..n)
  <2>1. f \in [ps -> 1..n]
    BY <1>2, Zenon
  <2>2. \A p, q \in ps : f[p] = f[q] => p = q
    BY <1>4, Zenon
  <2> HIDE DEF f, n
  <2> QED BY <2>1, <2>2, Zenon DEF Injection, IsInjective
<1>7. f \in Surjection(ps, 1..n)
  <2>1. IsFiniteSet(1..n) /\ Cardinality(1..n) = n
    BY <1>1, FS_Interval
  <2> HIDE DEF f
  <2>2. Cardinality(ps) = Cardinality(1..n)
    BY <2>1
  <2> QED BY <1>6, <2>1, <2>2, FS_Injection
<1>8. ASSUME NEW i \in 1..n PROVE Nth(ps, i) \in ps
  <2>1. PICK p \in ps : f[p] = i
    <3> HIDE DEF f
    <3> QED BY <1>7 DEF Surjection
  <2>2. Cardinality(upTo(p)) = i
    BY <2>1
  <2> HIDE DEF upTo
  <2> QED BY <2>2, <1>5, Zenon
<1>9. ASSUME NEW p \in ps PROVE \E i \in 1..n : Nth(ps, i) = p
  <2> DEFINE i == Cardinality(upTo(p))
  <2>1. i \in 1..n
    BY <1>2
  <2>2. Nth(ps, i) = p
    BY <1>5, Zenon
  <2> HIDE DEF i
  <2> QED BY <2>1, <2>2
<1> HIDE DEF n
<1>10. n \in Nat
  BY <1>1
<1> QED BY <1>8, <1>9, <1>10 DEF n

\* A value is a number, and none is not one of a form's.
LEMMA ValueIs ==
  ASSUME NEW c \in Conf, NEW k \in Key
  PROVE  c[k] \in Int /\ c[k] # Hidden /\ (c[k] = NoValue \/ c[k] \in Value)
<1>1. c[k] \in Value \cup {NoValue}
  BY DEF Conf
<1>2. \A v \in Value : v \in Nat
  BY SettingsAssumption DEF Value
<1> QED BY <1>1, <1>2 DEF NoValue, Hidden

\* get lists every value there is, and nothing else; of a secret, that there is one.
LEMMA RowsAre ==
  ASSUME NEW c \in Conf, NEW d \in Decls
  PROVE  /\ Rows(c, d) \in Seq(WireRow)
         /\ \A i \in 1..Len(Rows(c, d)) :
              LET row == Rows(c, d)[i]
                  k == At(d, row)
              IN /\ row.n \in DOMAIN d /\ k \in Key /\ c[k] # NoValue
                 /\ row.v = IF k[1] \in Secrets THEN Hidden ELSE c[k]
         /\ \A n \in DOMAIN d, ch \in 1..Chans :
              c[<<d[n], ch>>] # NoValue => \E i \in 1..Len(Rows(c, d)) : Rows(c, d)[i].n = n /\ Rows(c, d)[i].ch = ch
<1> DEFINE ps == Places(c, d)
           m == Len(d) * Chans
           R == Rows(c, d)
<1>1. m \in Int /\ d \in Seq(Item)
  BY SettingsAssumption
<1> HIDE DEF m
<1>2. ps \in SUBSET (1..m)
  BY DEF Places, m
<1>3. PICK n \in Nat : n = Cardinality(ps)
  BY <1>1, <1>2, NthGoesThrough
<1>4. R = [i \in 1..n |-> Row(c, d, Nth(ps, i))]
  BY <1>3 DEF Rows
<1>5. \A i \in 1..n : Nth(ps, i) \in ps
  BY <1>1, <1>2, <1>3, NthGoesThrough
<1>6. \A p \in ps : \E i \in 1..n : Nth(ps, i) = p
  BY <1>1, <1>2, <1>3, NthGoesThrough
<1> HIDE DEF ps
<1>7. ASSUME NEW p \in ps
      PROVE  /\ Row(c, d, p) \in WireRow /\ Row(c, d, p).n = Place(p).n /\ Row(c, d, p).ch = Place(p).ch
             /\ Place(p).n \in DOMAIN d /\ At(d, Row(c, d, p)) \in Key /\ c[At(d, Row(c, d, p))] # NoValue
             /\ Row(c, d, p).v = IF At(d, Row(c, d, p))[1] \in Secrets THEN Hidden ELSE c[At(d, Row(c, d, p))]
  <2>1. PICK x \in Nat, y \in 1..Chans : x = Place(p).n /\ y = Place(p).ch /\ x \in DOMAIN d
    <3>1. Place(p).n \in DOMAIN d /\ Place(p).ch \in 1..Chans
      BY <1>2, PlaceIn DEF m
    <3> QED BY <1>1, <3>1
  <2>2. <<d[x], y>> \in Key /\ c[<<d[x], y>>] # NoValue
    <3>1. d[x] \in Item
      BY <1>1, <2>1
    <3>2. c[<<d[x], y>>] # NoValue
      BY <2>1 DEF ps, Places
    <3> QED BY <3>1, <3>2 DEF Key
  <2>3. Row(c, d, p) = [n |-> x, ch |-> y, v |-> IF d[x] \in Secrets THEN Hidden ELSE c[<<d[x], y>>]]
    BY <2>1 DEF Row
  <2>4. At(d, Row(c, d, p)) = <<d[x], y>>
    BY <2>3 DEF At
  <2>5. (IF d[x] \in Secrets THEN Hidden ELSE c[<<d[x], y>>]) \in Int
    BY <2>2, ValueIs DEF Hidden
  <2>6. Row(c, d, p) \in WireRow
    BY <2>3, <2>5 DEF WireRow
  <2>7. <<d[x], y>>[1] = d[x]
    OBVIOUS
  <2> QED BY <2>1, <2>2, <2>3, <2>4, <2>6, <2>7
<1>8. R \in Seq(WireRow) /\ Len(R) = n /\ \A i \in 1..n : R[i] = Row(c, d, Nth(ps, i))
  <2>1. \A i \in 1..n : Row(c, d, Nth(ps, i)) \in WireRow
    BY <1>5, <1>7
  <2> QED BY <1>4, <2>1
<1> HIDE DEF R
<1>9. ASSUME NEW i \in 1..n
      PROVE  /\ R[i].n \in DOMAIN d /\ At(d, R[i]) \in Key /\ c[At(d, R[i])] # NoValue
             /\ R[i].v = IF At(d, R[i])[1] \in Secrets THEN Hidden ELSE c[At(d, R[i])]
  BY <1>5, <1>7, <1>8
<1>10. ASSUME NEW x \in DOMAIN d, NEW y \in 1..Chans, c[<<d[x], y>>] # NoValue
       PROVE  \E i \in 1..n : R[i].n = x /\ R[i].ch = y
  <2>1. PICK p \in 1..m : Place(p) = [n |-> x, ch |-> y]
    BY PlaceHas DEF m
  <2>2. p \in ps
    BY <1>10, <2>1 DEF ps, Places, m
  <2>3. PICK i \in 1..n : Nth(ps, i) = p
    BY <1>6, <2>2
  <2> QED BY <1>7, <1>8, <2>1, <2>2, <2>3
<1> QED BY <1>8, <1>9, <1>10 DEF R

---------------------------------------------------------------------------
(* The lists a plan is made of. *)

\* One more element of a comprehension.
Kept(r, s, I, k) == IF k \in I THEN Append(r, s[k]) ELSE r
IsThose(f, s, I, n) == f = [k \in 0..n |-> IF k = 0 THEN <<>> ELSE Kept(f[k - 1], s, I, k)]

\* There is such a function for every length.
LEMMA ThoseExist ==
  ASSUME NEW s, NEW I, NEW n \in Nat
  PROVE  \E f : IsThose(f, s, I, n)
<1> DEFINE T == {m \in Nat : ~\E f : IsThose(f, s, I, m)}
<1> SUFFICES ASSUME T # {} PROVE FALSE
  OBVIOUS
<1>1. PICK m \in T : \A x \in T : m <= x
  BY LeastOf
<1>2. m # 0
  <2>1. IsThose([k \in 0..0 |-> <<>>], s, I, 0)
    BY DEF IsThose
  <2> QED BY <2>1
<1>3. m - 1 \in Nat /\ m - 1 \notin T
  BY <1>1, <1>2
<1>4. PICK f : IsThose(f, s, I, m - 1)
  BY <1>3
<1> DEFINE g == [k \in 0..m |-> IF k = m THEN Kept(f[m - 1], s, I, m) ELSE f[k]]
<1>5. \A k \in 0..m : g[k] = IF k = 0 THEN <<>> ELSE Kept(g[k - 1], s, I, k)
  <2> SUFFICES ASSUME NEW k \in 0..m PROVE g[k] = IF k = 0 THEN <<>> ELSE Kept(g[k - 1], s, I, k)
    OBVIOUS
  <2>1. m \in Nat
    OBVIOUS
  <2>2. CASE k = m
    BY <2>1, <2>2, <1>2
  <2>3. CASE k # m
    <3>1. k \in 0..(m - 1)
      BY <2>1, <2>3
    <3>2. f[k] = IF k = 0 THEN <<>> ELSE Kept(f[k - 1], s, I, k)
      BY <3>1, <1>4 DEF IsThose
    <3>3. g[k] = f[k]
      BY <2>3
    <3>4. k # 0 => g[k - 1] = f[k - 1]
      BY <3>1, <2>1
    <3> QED BY <3>2, <3>3, <3>4
  <2> QED BY <2>2, <2>3
<1>6. IsThose(g, s, I, m)
  BY <1>5 DEF IsThose
<1> QED BY <1>6

\* Those is its last value.
LEMMA ThoseIs ==
  ASSUME NEW S, NEW s \in Seq(S), NEW I
  PROVE  \E f : /\ f[0] = <<>> /\ Those(s, I) = f[Len(s)]
                /\ \A k \in 1..Len(s) : f[k] = Kept(f[k - 1], s, I, k)
<1> DEFINE n == Len(s)
           r == CHOOSE f : f = [k \in 0..n |-> IF k = 0 THEN <<>> ELSE IF k \in I THEN Append(f[k - 1], s[k]) ELSE f[k - 1]]
<1>1. n \in Nat
  OBVIOUS
<1>2. r = [k \in 0..n |-> IF k = 0 THEN <<>> ELSE IF k \in I THEN Append(r[k - 1], s[k]) ELSE r[k - 1]]
  <2>1. PICK f : IsThose(f, s, I, n)
    BY <1>1, ThoseExist
  <2>2. f = [k \in 0..n |-> IF k = 0 THEN <<>> ELSE IF k \in I THEN Append(f[k - 1], s[k]) ELSE f[k - 1]]
    BY <2>1 DEF IsThose, Kept
  <2> QED BY <2>2, Zenon
<1>3. Those(s, I) = r[n]
  BY DEF Those
<1> HIDE DEF r, n
<1>4. r[0] = <<>>
  BY <1>1, <1>2
<1>5. ASSUME NEW k \in 1..n PROVE r[k] = Kept(r[k - 1], s, I, k)
  <2>1. k \in 0..n /\ k # 0
    BY <1>1
  <2> QED BY <2>1, <1>2 DEF Kept
<1> QED BY <1>3, <1>4, <1>5 DEF n

\* t is made of the elements of s in the places I.
MadeOf(t, s, I) ==
  /\ \A j \in 1..Len(t) : \E i \in 1..Len(s) : i \in I /\ t[j] = s[i]
  /\ \A i \in 1..Len(s) : i \in I => \E j \in 1..Len(t) : t[j] = s[i]

\* Those are the elements in the places I, and no other.
LEMMA ThoseAre ==
  ASSUME NEW S, NEW s \in Seq(S), NEW I
  PROVE  Those(s, I) \in Seq(S) /\ MadeOf(Those(s, I), s, I)
<1>1. PICK f : /\ f[0] = <<>> /\ Those(s, I) = f[Len(s)]
               /\ \A k \in 1..Len(s) : f[k] = Kept(f[k - 1], s, I, k)
  BY ThoseIs, SMTT(20)
<1> DEFINE P(m) == /\ f[m] \in Seq(S)
                   /\ \A j \in 1..Len(f[m]) : \E i \in 1..m : i \in I /\ f[m][j] = s[i]
                   /\ \A i \in 1..m : i \in I => \E j \in 1..Len(f[m]) : f[m][j] = s[i]
           T == {m \in Nat : m <= Len(s) /\ ~P(m)}
<1>2. T = {}
  <2> SUFFICES ASSUME T # {} PROVE FALSE
    OBVIOUS
  <2>1. PICK m \in T : \A x \in T : m <= x
    BY LeastOf
  <2>2. P(0)
    BY <1>1
  <2>3. m - 1 \in Nat /\ m - 1 <= Len(s) /\ P(m - 1) /\ m \in 1..Len(s)
    BY <2>1, <2>2
  <2>4. f[m] = Kept(f[m - 1], s, I, m)
    BY <1>1, <2>3
  <2>5. PICK q \in Seq(S), e \in S, z \in Nat : q = f[m - 1] /\ e = s[m] /\ z = Len(q)
    BY <2>3
  <2>6. CASE m \in I
    <3>1. f[m] = Append(q, e)
      BY <2>4, <2>5, <2>6 DEF Kept
    <3>2. f[m] \in Seq(S) /\ Len(f[m]) = z + 1 /\ f[m][z + 1] = e /\ \A i \in 1..z : f[m][i] = q[i]
      BY <3>1, <2>5
    <3>3. ASSUME NEW j \in 1..Len(f[m]) PROVE \E i \in 1..m : i \in I /\ f[m][j] = s[i]
      <4>1. CASE j = z + 1
        BY <4>1, <3>2, <2>3, <2>5, <2>6
      <4>2. CASE j # z + 1
        <5>1. j \in 1..z
          BY <4>2, <3>2
        <5>2. PICK i \in 1..(m - 1) : i \in I /\ q[j] = s[i]
          BY <5>1, <2>3, <2>5
        <5>3. i \in 1..m
          BY <5>2, <2>3
        <5> QED BY <5>1, <5>2, <5>3, <3>2
      <4> QED BY <4>1, <4>2
    <3>4. ASSUME NEW i \in 1..m, i \in I PROVE \E j \in 1..Len(f[m]) : f[m][j] = s[i]
      <4>1. CASE i = m
        <5>1. z + 1 \in 1..Len(f[m])
          BY <3>2
        <5> QED BY <4>1, <5>1, <3>2, <2>5
      <4>2. CASE i # m
        <5>1. i \in 1..(m - 1)
          BY <4>2, <2>3
        <5>2. PICK j \in 1..z : q[j] = s[i]
          BY <5>1, <3>4, <2>3, <2>5
        <5>3. j \in 1..Len(f[m])
          BY <3>2
        <5> QED BY <5>2, <5>3, <3>2
      <4> QED BY <4>1, <4>2
    <3>5. P(m)
      BY <3>2, <3>3, <3>4
    <3> QED BY <3>5, <2>1
  <2>7. CASE m \notin I
    <3>1. f[m] = q
      BY <2>4, <2>5, <2>7 DEF Kept
    <3>2. \A i \in 1..m : i \in I => i \in 1..(m - 1)
      BY <2>3, <2>7
    <3>3. \A i \in 1..(m - 1) : i \in 1..m
      BY <2>3
    <3>4. P(m)
      BY <3>1, <3>2, <3>3, <2>3, <2>5, SMTT(20)
    <3> QED BY <3>4, <2>1
  <2> QED BY <2>6, <2>7
<1>3. P(Len(s))
  <2>1. Len(s) \in Nat /\ Len(s) \notin T
    BY <1>2
  <2> QED BY <2>1
<1> QED BY <1>1, <1>3 DEF MadeOf

---------------------------------------------------------------------------
(* Requests. *)

\* A request of q says op of row.
Says(q, op, row) == \E b \in DOMAIN q : q[b].op = op /\ \E i \in DOMAIN q[b].rows : q[b].rows[i] = row
Among(row, rows) == \E j \in 1..Len(rows) : rows[j] = row

\* _batches says of every row what it was given, and of no other.
LEMMA BatchesAre ==
  ASSUME NEW op \in {"set", "unset"}, NEW rows \in Seq(WireRow)
  PROVE  /\ Batches(op, rows) \in Seq(Request)
         /\ Batches(op, rows) = <<>> <=> rows = <<>>
         /\ \A o, row : Says(Batches(op, rows), o, row) <=> o = op /\ Among(row, rows)
<1>1. PICK n \in Nat : n = Len(rows) /\ DOMAIN rows = 1..n
  OBVIOUS
<1>2. PICK P \in Nat \ {0} : P = PerRequest
  BY SettingsAssumption
<1>3. PICK m \in Nat : m = (n + P - 1) \div P
  OBVIOUS
<1> DEFINE from(b) == (b - 1) * P + 1
           to(b) == IF b * P < n THEN b * P ELSE n
           B == Batches(op, rows)
<1>4. ASSUME NEW b \in 1..m
      PROVE  from(b) \in Nat \ {0} /\ to(b) \in Nat /\ to(b) <= n
  <2>1. b * P \in Nat /\ (b - 1) * P \in Nat
    BY <1>2
  <2> QED BY <2>1
<1>5. B = [b \in 1..m |-> [op |-> op, rows |-> SubSeq(rows, from(b), to(b))]]
  BY <1>1, <1>2, <1>3 DEF Batches
<1>6. ASSUME NEW b \in 1..m
      PROVE  /\ SubSeq(rows, from(b), to(b)) \in Seq(WireRow)
             /\ Len(SubSeq(rows, from(b), to(b))) = IF from(b) <= to(b) THEN to(b) - from(b) + 1 ELSE 0
             /\ \A i \in 1..(to(b) - from(b) + 1) : SubSeq(rows, from(b), to(b))[i] = rows[from(b) + i - 1]
  <2>1. PICK x \in Nat \ {0}, y \in Nat : x = from(b) /\ y = to(b) /\ y <= n
    BY <1>4
  <2>2. \A i \in x..y : rows[i] \in WireRow
    BY <1>1, <2>1
  <2> HIDE DEF from, to
  <2> QED BY <2>1, <2>2, SubSeqProperties
<1>7. B \in Seq(Request) /\ DOMAIN B = 1..m
      /\ \A b \in 1..m : B[b].op = op /\ B[b].rows = SubSeq(rows, from(b), to(b))
  <2> HIDE DEF from, to, B
  <2>1. \A b \in 1..m : [op |-> op, rows |-> SubSeq(rows, from(b), to(b))] \in Request
    BY <1>6 DEF Request
  <2> QED BY <1>5, <2>1
<1>8. ASSUME NEW b \in 1..m, NEW i \in DOMAIN B[b].rows
      PROVE  Among(B[b].rows[i], rows)
  <2>1. PICK x \in Nat \ {0}, y \in Nat : x = from(b) /\ y = to(b) /\ y <= n
    BY <1>4
  <2> HIDE DEF from, to, B
  <2>2. PICK s \in Seq(WireRow) : s = SubSeq(rows, from(b), to(b)) /\ B[b].rows = s
    BY <1>6, <1>7, Zenon
  <2>a. Len(s) = IF x <= y THEN y - x + 1 ELSE 0
    BY <1>6, <2>1, <2>2, Zenon
  <2>b. i \in DOMAIN s
    BY <1>8, <2>2, Zenon
  <2>c. i \in 1..Len(s)
    BY <2>b
  <2>3. x <= y /\ i \in 1..(y - x + 1)
    BY <2>1, <2>a, <2>c, SMTT(20)
  <2>4. B[b].rows[i] = rows[x + i - 1]
    BY <1>6, <2>1, <2>2, <2>3, Zenon
  <2>5. x + i - 1 \in 1..n
    <3>1. PICK k \in Nat : k = i /\ 1 <= k /\ x + k <= y + 1
      BY <2>1, <2>3
    <3> QED BY <2>1, <3>1
  <2> QED BY <1>1, <2>4, <2>5 DEF Among
<1>9. ASSUME NEW j \in 1..n
      PROVE  \E b \in 1..m : \E i \in DOMAIN B[b].rows : B[b].rows[i] = rows[j]
  <2>1. PICK a \in Nat : a = j - 1 /\ a + 1 <= n
    OBVIOUS
  <2>2. PICK q \in Nat, r \in 0..(P - 1) : a = q * P + r
    BY Dividing
  <2>3. PICK c \in Nat : c = q * P
    OBVIOUS
  <2>4. (q + 1) * P = c + P
    BY <2>3
  <2>5. q + 1 \in 1..m
    <3>1. PICK s \in 0..(P - 1) : n + P - 1 = m * P + s
      <4>1. n + P - 1 \in Nat
        OBVIOUS
      <4> QED BY <4>1, <1>3, Dividing
    <3>2. c + P <= n + P - 1
      BY <2>1, <2>2, <2>3
    <3> SUFFICES ASSUME m <= q PROVE FALSE
      OBVIOUS
    <3>3. m * P <= q * P /\ m * P \in Nat
      OBVIOUS
    <3> QED BY <3>1, <3>2, <3>3, <2>3
  <2>6. from(q + 1) = c + 1 /\ to(q + 1) = IF c + P < n THEN c + P ELSE n
    BY <2>3, <2>4
  <2>7. PICK y \in Nat : y = to(q + 1) /\ y = IF c + P < n THEN c + P ELSE n
    BY <2>6
  <2>8. r + 1 \in 1..(y - (c + 1) + 1)
    BY <2>1, <2>2, <2>3, <2>7
  <2> HIDE DEF from, to, B
  <2>9. Len(B[q + 1].rows) = y - (c + 1) + 1 /\ B[q + 1].rows[r + 1] = rows[(c + 1) + (r + 1) - 1]
        /\ B[q + 1].rows \in Seq(WireRow)
    <3>1. c + 1 <= y
      BY <2>7, <2>8
    <3> QED BY <1>6, <1>7, <2>5, <2>6, <2>7, <2>8, <3>1
  <2>10. (c + 1) + (r + 1) - 1 = j
    BY <2>1, <2>2, <2>3
  <2>11. r + 1 \in DOMAIN B[q + 1].rows
    BY <2>8, <2>9, SMTT(20)
  <2> QED BY <2>5, <2>9, <2>10, <2>11
<1> HIDE DEF B, from, to
<1>10. ASSUME NEW o, NEW row
       PROVE  Says(B, o, row) <=> o = op /\ Among(row, rows)
  <2>1. ASSUME Says(B, o, row) PROVE o = op /\ Among(row, rows)
    BY <1>7, <1>8, <2>1, Zenon DEF Says
  <2>2. ASSUME o = op, Among(row, rows) PROVE Says(B, o, row)
    <3>1. PICK j \in 1..n : rows[j] = row
      BY <1>1, <2>2 DEF Among
    <3> QED BY <1>7, <1>9, <2>2, <3>1, Zenon DEF Says
  <2> QED BY <2>1, <2>2
<1>11. B = <<>> <=> rows = <<>>
  <2>1. CASE rows = <<>>
    <3>1. n = 0
      BY <1>1, <2>1
    <3>2. m = 0
      <4>1. (0 + P - 1) \div P = 0
        <5>1. 0 * P + (P - 1) = 0 + P - 1
          OBVIOUS
        <5>2. P - 1 \in 0..(P - 1) /\ 0 \in Nat
          OBVIOUS
        <5>3. (0 * P + (P - 1)) \div P = 0
          BY <5>2, Divided
        <5> QED BY <5>1, <5>3
      <4> QED BY <1>3, <3>1, <4>1
    <3> QED BY <1>7, <2>1, <3>2
  <2>2. CASE rows # <<>>
    <3>1. 1 \in 1..n
      BY <1>1, <2>2
    <3>2. \E b \in 1..m : TRUE
      BY <1>9, <3>1
    <3> QED BY <1>7, <2>2, <3>2
  <2> QED BY <2>1, <2>2
<1> QED BY <1>7, <1>10, <1>11 DEF B

\* Two lists of requests, one after the other.
LEMMA SaysBoth ==
  ASSUME NEW p \in Seq(Request), NEW q \in Seq(Request)
  PROVE  /\ p \o q \in Seq(Request)
         /\ p \o q = <<>> <=> p = <<>> /\ q = <<>>
         /\ \A op, row : Says(p \o q, op, row) <=> Says(p, op, row) \/ Says(q, op, row)
<1>1. PICK m \in Nat, n \in Nat : m = Len(p) /\ n = Len(q) /\ DOMAIN p = 1..m /\ DOMAIN q = 1..n
  OBVIOUS
<1>2. PICK s \in Seq(Request) : /\ s = p \o q /\ Len(s) = m + n
                                /\ \A i \in 1..(m + n) : s[i] = IF i <= m THEN p[i] ELSE q[i - m]
  <2>1. /\ p \o q \in Seq(Request) /\ Len(p \o q) = Len(p) + Len(q)
        /\ \A i \in 1..(Len(p) + Len(q)) : (p \o q)[i] = IF i <= Len(p) THEN p[i] ELSE q[i - Len(p)]
    BY ConcatProperties, Zenon
  <2>2. Len(p) = m /\ Len(q) = n
    BY <1>1
  <2> QED BY <2>1, <2>2, Zenon
<1>a. DOMAIN s = 1..(m + n)
  BY <1>2
<1>3. (\A i \in 1..m : s[i] = p[i]) /\ (\A i \in 1..n : s[m + i] = q[i])
  <2>1. ASSUME NEW i \in 1..m PROVE s[i] = p[i]
    <3>1. i \in 1..(m + n) /\ i <= m
      OBVIOUS
    <3> QED BY <3>1, <1>2
  <2>2. ASSUME NEW i \in 1..n PROVE s[m + i] = q[i]
    <3>1. PICK j \in 1..(m + n) : j = m + i /\ ~(j <= m) /\ j - m = i
      OBVIOUS
    <3>2. s[j] = q[j - m]
      BY <3>1, <1>2
    <3> QED BY <3>1, <3>2
  <2> QED BY <2>1, <2>2
<1>4. s = <<>> <=> p = <<>> /\ q = <<>>
  BY <1>1, <1>2, <1>a
<1>5. ASSUME NEW op, NEW row
      PROVE  Says(s, op, row) <=> Says(p, op, row) \/ Says(q, op, row)
  <2>1. ASSUME Says(s, op, row) PROVE Says(p, op, row) \/ Says(q, op, row)
    <3>1. PICK b \in 1..(m + n) : s[b].op = op /\ \E i \in DOMAIN s[b].rows : s[b].rows[i] = row
      BY <1>a, <2>1 DEF Says
    <3>2. CASE b \in 1..m
      BY <1>1, <1>3, <3>1, <3>2 DEF Says
    <3>3. CASE b \notin 1..m
      <4>1. b - m \in 1..n /\ m + (b - m) = b
        BY <3>3
      <4>2. s[b] = q[b - m]
        BY <1>3, <4>1
      <4> QED BY <1>1, <3>1, <4>1, <4>2 DEF Says
    <3> QED BY <3>2, <3>3
  <2>2. ASSUME Says(p, op, row) PROVE Says(s, op, row)
    <3>1. PICK b \in 1..m : p[b].op = op /\ \E i \in DOMAIN p[b].rows : p[b].rows[i] = row
      BY <1>1, <2>2 DEF Says
    <3>2. s[b] = p[b] /\ b \in 1..(m + n)
      BY <1>3
    <3> QED BY <1>a, <3>1, <3>2 DEF Says
  <2>3. ASSUME Says(q, op, row) PROVE Says(s, op, row)
    <3>1. PICK b \in 1..n : q[b].op = op /\ \E i \in DOMAIN q[b].rows : q[b].rows[i] = row
      BY <1>1, <2>3 DEF Says
    <3>2. s[m + b] = q[b]
      BY <1>3
    <3>3. m + b \in 1..(m + n)
      OBVIOUS
    <3> QED BY <1>a, <3>1, <3>2, <3>3 DEF Says
  <2> QED BY <2>1, <2>2, <2>3
<1> QED BY <1>2, <1>4, <1>5

\* What makes the values, by what is said.
LEMMA MakesBySaying ==
  ASSUME NEW q \in Seq(Request), NEW d, NEW K, NEW c, NEW G,
         \A op, row : Says(q, op, row) => row.n \in DOMAIN d /\ At(d, row) \in K /\ G[At(d, row)] = Gives(op, row),
         \A k \in K : c[k] = G[k] \/ \E op, row : Says(q, op, row) /\ At(d, row) = k
  PROVE  Makes(q, d, K, c, G)
<1>1. ASSUME NEW b \in DOMAIN q, NEW i \in DOMAIN q[b].rows
      PROVE  /\ q[b].rows[i].n \in DOMAIN d /\ At(d, q[b].rows[i]) \in K
             /\ G[At(d, q[b].rows[i])] = Gives(q[b].op, q[b].rows[i])
  <2>1. Says(q, q[b].op, q[b].rows[i])
    BY DEF Says
  <2> QED BY <2>1
<1>2. ASSUME NEW k \in K, c[k] # G[k]
      PROVE  \E b \in DOMAIN q : \E i \in DOMAIN q[b].rows : At(d, q[b].rows[i]) = k
  <2>1. PICK op, row : Says(q, op, row) /\ At(d, row) = k
    BY <1>2
  <2> QED BY <2>1, Zenon DEF Says
<1> QED BY <1>1, <1>2, Zenon DEF Makes

\* The list of what nobody has to do.
LEMMA NothingToDo ==
  ASSUME NEW d, NEW K, NEW c, NEW G
  PROVE  Makes(<<>>, d, K, c, G) <=> \A k \in K : c[k] = G[k]
BY DEF Makes

---------------------------------------------------------------------------
(* Plans. *)

FileRow == [item : Item, ch : 1..Chans, v : Nat \cup {NoValue}]
\* A file names no value twice.
FileOk(f) == f \in Seq(FileRow) /\ \A i, j \in DOMAIN f : FileKey(f[i]) = FileKey(f[j]) => i = j

\* The files of the commands are such.
LEMMA FilesOk ==
  ASSUME NEW j \in Commands
  PROVE  FileOk(j.file) /\ j.cmd \in {"import", "set", "clear", "keep"} /\ j.save \in BOOLEAN
<1>1. j \in [cmd : {"import", "set", "clear", "keep"}, save : BOOLEAN, file : Seq(FileRow)]
  BY SettingsAssumption, Zenon DEF FileRow
<1>2. \A i, k \in DOMAIN j.file : j.file[i].item = j.file[k].item /\ j.file[i].ch = j.file[k].ch => i = k
  BY SettingsAssumption, Zenon
<1>3. \A i, k \in DOMAIN j.file : FileKey(j.file[i]) = FileKey(j.file[k]) => i = k
  BY <1>2 DEF FileKey
<1> QED BY <1>1, <1>3, Zenon DEF FileOk

\* A name has an entry, its own.
LEMMA EntryIs ==
  ASSUME NEW f, FileOk(f), NEW i \in DOMAIN f
  PROVE  Entry(f, FileKey(f[i])) = f[i] /\ FileKey(f[i]) \in Names(f) /\ f[i] \in FileRow /\ FileKey(f[i]) \in Key
<1> DEFINE j == CHOOSE k \in DOMAIN f : FileKey(f[k]) = FileKey(f[i])
<1>1. j \in DOMAIN f /\ FileKey(f[j]) = FileKey(f[i])
  BY Zenon
<1>2. j = i
  BY <1>1, Zenon DEF FileOk
<1>3. Entry(f, FileKey(f[i])) = f[j]
  BY DEF Entry
<1>4. f[i] \in FileRow
  BY DEF FileOk
<1>5. FileKey(f[i]) \in Key
  BY <1>4 DEF FileKey, FileRow, Key
<1> HIDE DEF j
<1> QED BY <1>2, <1>3, <1>4, <1>5 DEF Names

\* An item has one number.
LEMMA NumberIs ==
  ASSUME NEW d \in Decls, NEW item, Declares(d, item)
  PROVE  /\ NumberOf(d, item) \in DOMAIN d /\ NumberOf(d, item) \in Nat /\ d[NumberOf(d, item)] = item
         /\ \A n \in DOMAIN d : d[n] = item => n = NumberOf(d, item)
<1>1. NumberOf(d, item) \in DOMAIN d /\ d[NumberOf(d, item)] = item
  BY Zenon DEF Declares, NumberOf
<1>2. d \in Seq(Item) /\ \A i, j \in DOMAIN d : d[i] = d[j] => i = j
  BY SettingsAssumption, Zenon
<1>3. DOMAIN d \subseteq Nat
  BY <1>2
<1> QED BY <1>1, <1>2, <1>3, Zenon

\* An entry of a declared item goes out under its number.
LEMMA WireIs ==
  ASSUME NEW d \in Decls, NEW e \in FileRow, Declares(d, e.item)
  PROVE  /\ WireOf(d, e) \in WireRow /\ WireOf(d, e).n \in DOMAIN d /\ WireOf(d, e).v = e.v
         /\ At(d, WireOf(d, e)) = FileKey(e)
<1>1. PICK n \in Nat : n = NumberOf(d, e.item) /\ n \in DOMAIN d /\ d[n] = e.item
  BY NumberIs
<1>2. WireOf(d, e) = [n |-> n, ch |-> e.ch, v |-> e.v]
  BY <1>1 DEF WireOf
<1>3. e.ch \in 1..Chans /\ e.v \in Int
  BY DEF FileRow, NoValue
<1>4. At(d, WireOf(d, e)) = FileKey(e)
  BY <1>1, <1>2 DEF At, FileKey
<1> QED BY <1>1, <1>2, <1>3, <1>4 DEF WireRow

\* get shows an entry's value when there is one, a secret's hidden.
LEMMA ShownIs ==
  ASSUME NEW c \in Conf, NEW d \in Decls, NEW e \in FileRow, Declares(d, e.item)
  PROVE  /\ \A i \in Shown(Rows(c, d), d, e) :
              c[FileKey(e)] # NoValue /\ Rows(c, d)[i].v = IF e.item \in Secrets THEN Hidden ELSE c[FileKey(e)]
         /\ c[FileKey(e)] # NoValue => Shown(Rows(c, d), d, e) # {}
<1> DEFINE R == Rows(c, d)
           n == NumberOf(d, e.item)
<1>1. n \in DOMAIN d /\ d[n] = e.item /\ e.ch \in 1..Chans
  BY NumberIs DEF FileRow
<1>2. /\ R \in Seq(WireRow)
      /\ \A i \in 1..Len(R) :
           /\ c[At(d, R[i])] # NoValue
           /\ R[i].v = IF At(d, R[i])[1] \in Secrets THEN Hidden ELSE c[At(d, R[i])]
      /\ \A x \in DOMAIN d, y \in 1..Chans :
           c[<<d[x], y>>] # NoValue => \E i \in 1..Len(R) : R[i].n = x /\ R[i].ch = y
  BY RowsAre
<1>3. Shown(R, d, e) = {i \in 1..Len(R) : R[i].n = n /\ R[i].ch = e.ch}
  BY <1>2 DEF Shown
<1> HIDE DEF R, n
<1>4. ASSUME NEW i \in Shown(R, d, e)
      PROVE  c[FileKey(e)] # NoValue /\ R[i].v = IF e.item \in Secrets THEN Hidden ELSE c[FileKey(e)]
  <2>1. At(d, R[i]) = <<e.item, e.ch>>
    BY <1>1, <1>3 DEF At
  <2>2. i \in 1..Len(R)
    BY <1>3
  <2>3. <<e.item, e.ch>>[1] = e.item
    OBVIOUS
  <2> QED BY <1>2, <2>1, <2>2, <2>3 DEF FileKey
<1>5. ASSUME c[FileKey(e)] # NoValue PROVE Shown(R, d, e) # {}
  <2>1. c[<<d[n], e.ch>>] # NoValue
    BY <1>1, <1>5 DEF FileKey
  <2>2. \E i \in 1..Len(R) : R[i].n = n /\ R[i].ch = e.ch
    BY <1>1, <1>2, <2>1
  <2> QED BY <1>3, <2>2
<1> QED BY <1>4, <1>5 DEF R

\* The elements of a comprehension.
LEMMA AmongThose ==
  ASSUME NEW S, NEW s \in Seq(S), NEW I, NEW x
  PROVE  Among(x, Those(s, I)) <=> \E i \in 1..Len(s) : i \in I /\ x = s[i]
<1> DEFINE t == Those(s, I)
<1>1. /\ \A j \in 1..Len(t) : \E i \in 1..Len(s) : i \in I /\ t[j] = s[i]
      /\ \A i \in 1..Len(s) : i \in I => \E j \in 1..Len(t) : t[j] = s[i]
  <2>1. MadeOf(t, s, I)
    BY ThoseAre
  <2> QED BY <2>1, Zenon DEF MadeOf
<1> HIDE DEF t
<1>2. ASSUME Among(x, t) PROVE \E i \in 1..Len(s) : i \in I /\ x = s[i]
  <2>1. PICK j \in 1..Len(t) : t[j] = x
    BY <1>2, Zenon DEF Among
  <2> QED BY <1>1, <2>1, Zenon
<1>3. ASSUME NEW i \in 1..Len(s), i \in I, x = s[i] PROVE Among(x, t)
  BY <1>1, <1>3, Zenon DEF Among
<1> QED BY <1>2, <1>3 DEF t

\* The elements of two lists, one after the other.
LEMMA AmongBoth ==
  ASSUME NEW S, NEW p \in Seq(S), NEW q \in Seq(S), NEW x
  PROVE  Among(x, p \o q) <=> Among(x, p) \/ Among(x, q)
<1>1. PICK m \in Nat, n \in Nat : m = Len(p) /\ n = Len(q)
  OBVIOUS
<1>2. Len(p \o q) = m + n /\ \A i \in 1..(m + n) : (p \o q)[i] = IF i <= m THEN p[i] ELSE q[i - m]
  <2>1. /\ Len(p \o q) = Len(p) + Len(q)
        /\ \A i \in 1..(Len(p) + Len(q)) : (p \o q)[i] = IF i <= Len(p) THEN p[i] ELSE q[i - Len(p)]
    BY ConcatProperties, Zenon
  <2> QED BY <1>1, <2>1, Zenon
<1>3. ASSUME Among(x, p \o q) PROVE Among(x, p) \/ Among(x, q)
  <2>1. PICK i \in 1..(m + n) : (p \o q)[i] = x
    BY <1>2, <1>3 DEF Among
  <2>2. CASE i <= m
    BY <1>1, <1>2, <2>1, <2>2 DEF Among
  <2>3. CASE ~(i <= m)
    <3>1. i - m \in 1..n
      BY <2>3
    <3>2. q[i - m] = x
      BY <1>2, <2>1, <2>3
    <3> QED BY <1>1, <3>1, <3>2 DEF Among
  <2> QED BY <2>2, <2>3
<1>4. ASSUME Among(x, p) PROVE Among(x, p \o q)
  <2>1. PICK i \in 1..m : p[i] = x
    BY <1>1, <1>4 DEF Among
  <2>2. i \in 1..(m + n) /\ i <= m
    OBVIOUS
  <2>3. (p \o q)[i] = x
    BY <1>2, <2>1, <2>2
  <2> QED BY <1>2, <2>2, <2>3 DEF Among
<1>5. ASSUME Among(x, q) PROVE Among(x, p \o q)
  <2>1. PICK i \in 1..n : q[i] = x
    BY <1>1, <1>5 DEF Among
  <2>2. PICK j \in 1..(m + n) : j = m + i /\ ~(j <= m) /\ j - m = i
    OBVIOUS
  <2>3. (p \o q)[j] = x
    BY <1>2, <2>1, <2>2
  <2> QED BY <1>2, <2>2, <2>3 DEF Among
<1> QED BY <1>3, <1>4, <1>5

\* Entries of declared items, as they go out.
LEMMA WiresAre ==
  ASSUME NEW d \in Decls, NEW s \in Seq(FileRow), \A i \in 1..Len(s) : Declares(d, s[i].item)
  PROVE  /\ AsWire(d, s) \in Seq(WireRow)
         /\ \A row : Among(row, AsWire(d, s)) <=> \E e : Among(e, s) /\ row = WireOf(d, e)
<1>1. PICK n \in Nat : n = Len(s) /\ DOMAIN s = 1..n
  OBVIOUS
<1>2. AsWire(d, s) = [i \in 1..n |-> WireOf(d, s[i])]
  BY <1>1 DEF AsWire
<1>3. \A i \in 1..n : WireOf(d, s[i]) \in WireRow
  BY <1>1, WireIs
<1>4. PICK w \in Seq(WireRow) : w = AsWire(d, s) /\ Len(w) = n /\ \A i \in 1..n : w[i] = WireOf(d, s[i])
  BY <1>2, <1>3
<1>5. ASSUME NEW row
      PROVE  Among(row, w) <=> \E e : Among(e, s) /\ row = WireOf(d, e)
  <2>1. ASSUME Among(row, w) PROVE \E e : Among(e, s) /\ row = WireOf(d, e)
    <3>1. PICK i \in 1..n : row = w[i]
      BY <1>4, <2>1 DEF Among
    <3>2. Among(s[i], s) /\ row = WireOf(d, s[i])
      BY <1>1, <1>4, <3>1 DEF Among
    <3> QED BY <3>2
  <2>2. ASSUME NEW e, Among(e, s), row = WireOf(d, e) PROVE Among(row, w)
    <3>1. PICK i \in 1..n : e = s[i]
      BY <1>1, <2>2 DEF Among
    <3> QED BY <1>4, <2>2, <3>1 DEF Among
  <2> QED BY <2>1, <2>2
<1> QED BY <1>4, <1>5

\* What a plan of the values c under the firmware d says, for a file f.
Unset(c, d, f, row) == /\ row.n \in DOMAIN d /\ At(d, row) \in Key /\ c[At(d, row)] # NoValue
                       /\ At(d, row) \notin Names(f)
SetTo(c, d, f, e) == /\ Declares(d, e.item) /\ \E i \in DOMAIN f : f[i] = e
                     /\ \/ e.item \notin Secrets /\ e.v \in Accepts[e.item] /\ c[FileKey(e)] # e.v
                        \/ e.item \in Secrets /\ e.v # NoValue /\ c[FileKey(e)] = NoValue

\* plan_import's two lists: the values the file does not have, and those it has otherwise.
LEMMA PlanIs ==
  ASSUME NEW c \in Conf, NEW d \in Decls, NEW f, FileOk(f)
  PROVE  LET p == PlanImport(d, Rows(c, d), f)
         IN /\ p.unsets \in Seq(WireRow) /\ p.sets \in Seq(WireRow)
            /\ \A row : Among(row, p.unsets) => Unset(c, d, f, row)
            /\ \A n \in DOMAIN d, ch \in 1..Chans :
                 c[<<d[n], ch>>] # NoValue /\ <<d[n], ch>> \notin Names(f)
                   => \E row : Among(row, p.unsets) /\ At(d, row) = <<d[n], ch>>
            /\ \A row : Among(row, p.sets) <=> \E e : SetTo(c, d, f, e) /\ row = WireOf(d, e)
<1> DEFINE R == Rows(c, d)
           IU == {i \in DOMAIN R : Unwanted(d, f, R[i])}
           IW == {i \in DOMAIN f : Wanted(d, R, f[i])}
           IS == {i \in DOMAIN f : Supplied(d, R, f[i])}
           W == Those(f, IW)
           X == Those(f, IS)
           p == PlanImport(d, R, f)
<1>1. /\ R \in Seq(WireRow)
      /\ \A i \in 1..Len(R) : R[i].n \in DOMAIN d /\ At(d, R[i]) \in Key /\ c[At(d, R[i])] # NoValue
      /\ \A x \in DOMAIN d, y \in 1..Chans :
           c[<<d[x], y>>] # NoValue => \E i \in 1..Len(R) : R[i].n = x /\ R[i].ch = y
  BY RowsAre
<1>2. f \in Seq(FileRow) /\ DOMAIN f = 1..Len(f) /\ \A i \in 1..Len(f) : f[i] \in FileRow
  BY DEF FileOk
<1>3. DOMAIN R = 1..Len(R)
  BY <1>1
<1> HIDE DEF R
<1>4. p = [unsets |-> Those(R, IU), sets |-> AsWire(d, W) \o AsWire(d, X)]
  BY DEF PlanImport
<1>5. Those(R, IU) \in Seq(WireRow) /\ W \in Seq(FileRow) /\ X \in Seq(FileRow)
  BY <1>1, <1>2, ThoseAre
<1>6. \A row : Among(row, Those(R, IU)) <=> \E i \in 1..Len(R) : i \in IU /\ row = R[i]
  BY <1>1, AmongThose
<1>7. ASSUME NEW e
      PROVE  /\ Among(e, W) <=> \E i \in 1..Len(f) : i \in IW /\ e = f[i]
             /\ Among(e, X) <=> \E i \in 1..Len(f) : i \in IS /\ e = f[i]
  BY <1>2, AmongThose
<1>8. ASSUME NEW e \in FileRow, Declares(d, e.item)
      PROVE  /\ Wanted(d, R, e) <=> e.item \notin Secrets /\ e.v \in Accepts[e.item] /\ c[FileKey(e)] # e.v
             /\ Supplied(d, R, e) <=> e.item \in Secrets /\ e.v # NoValue /\ c[FileKey(e)] = NoValue
  <2>1. /\ \A i \in Shown(R, d, e) :
              c[FileKey(e)] # NoValue /\ R[i].v = IF e.item \in Secrets THEN Hidden ELSE c[FileKey(e)]
        /\ c[FileKey(e)] # NoValue => Shown(R, d, e) # {}
    BY <1>8, ShownIs DEF R
  <2>2. e.v \in Accepts[e.item] => e.v # NoValue
    <3>1. e.item \in Item
      BY DEF FileRow
    <3>2. Accepts[e.item] \subseteq Nat
      BY <3>1, SettingsAssumption
    <3> QED BY <3>2 DEF NoValue
  <2> QED BY <1>8, <2>1, <2>2, Zenon DEF Wanted, Supplied
<1>9. ASSUME NEW row, Among(row, p.unsets) PROVE Unset(c, d, f, row)
  <2>1. PICK i \in 1..Len(R) : i \in IU /\ row = R[i]
    BY <1>4, <1>6, <1>9
  <2>2. row.n \in DOMAIN d /\ At(d, row) \in Key /\ c[At(d, row)] # NoValue
    BY <1>1, <2>1
  <2>3. <<d[row.n], row.ch>> \notin Names(f)
    BY <2>1, <2>2 DEF Unwanted
  <2> QED BY <2>2, <2>3 DEF Unset, At
<1>10. ASSUME NEW n \in DOMAIN d, NEW ch \in 1..Chans, c[<<d[n], ch>>] # NoValue, <<d[n], ch>> \notin Names(f)
       PROVE  \E row : Among(row, p.unsets) /\ At(d, row) = <<d[n], ch>>
  <2>1. PICK i \in 1..Len(R) : R[i].n = n /\ R[i].ch = ch
    BY <1>1, <1>10
  <2>2. Unwanted(d, f, R[i])
    BY <1>10, <2>1 DEF Unwanted
  <2>3. Among(R[i], p.unsets)
    BY <1>3, <1>4, <1>6, <2>2
  <2> QED BY <2>1, <2>3 DEF At
<1>11. ASSUME NEW e
       PROVE  SetTo(c, d, f, e) <=> Among(e, W) \/ Among(e, X)
  <2>1. ASSUME SetTo(c, d, f, e) PROVE Among(e, W) \/ Among(e, X)
    <3>1. PICK i \in 1..Len(f) : f[i] = e
      BY <1>2, <2>1 DEF SetTo
    <3>2. Wanted(d, R, e) \/ Supplied(d, R, e)
      BY <1>2, <1>8, <2>1, <3>1, Zenon DEF SetTo
    <3>3. i \in IW \/ i \in IS
      BY <1>2, <3>1, <3>2
    <3> QED BY <1>7, <3>1, <3>3
  <2>2. ASSUME NEW i \in 1..Len(f), i \in IW \/ i \in IS, e = f[i] PROVE SetTo(c, d, f, e)
    <3>1. e \in FileRow /\ (Wanted(d, R, e) \/ Supplied(d, R, e))
      BY <1>2, <2>2
    <3>2. Declares(d, e.item)
      BY <3>1 DEF Wanted, Supplied
    <3> QED BY <1>2, <1>8, <2>2, <3>1, <3>2, Zenon DEF SetTo
  <2> QED BY <1>7, <2>1, <2>2, Zenon
<1>12. (\A i \in 1..Len(W) : Declares(d, W[i].item)) /\ (\A i \in 1..Len(X) : Declares(d, X[i].item))
  <2>1. \A i \in 1..Len(W) : Among(W[i], W)
    BY DEF Among
  <2>2. \A i \in 1..Len(X) : Among(X[i], X)
    BY DEF Among
  <2> HIDE DEF W, X
  <2> QED BY <1>11, <2>1, <2>2, Zenon DEF SetTo
<1> HIDE DEF W, X, p, IU
<1>13. /\ AsWire(d, W) \in Seq(WireRow) /\ AsWire(d, X) \in Seq(WireRow)
       /\ \A row : Among(row, AsWire(d, W)) <=> \E e : Among(e, W) /\ row = WireOf(d, e)
       /\ \A row : Among(row, AsWire(d, X)) <=> \E e : Among(e, X) /\ row = WireOf(d, e)
  BY <1>5, <1>12, WiresAre
<1>14. p.sets \in Seq(WireRow)
  BY <1>4, <1>13
<1>15. \A row : Among(row, p.sets) <=> Among(row, AsWire(d, W)) \/ Among(row, AsWire(d, X))
  <2>1. p.sets = AsWire(d, W) \o AsWire(d, X)
    BY <1>4
  <2> QED BY <1>13, <2>1, AmongBoth
<1>16. \A row : Among(row, p.sets) <=> \E e : SetTo(c, d, f, e) /\ row = WireOf(d, e)
  BY <1>11, <1>13, <1>15, Zenon
<1>17. p.unsets \in Seq(WireRow)
  BY <1>4, <1>5
<1> QED BY <1>9, <1>10, <1>14, <1>16, <1>17 DEF p, R

\* What a plan's two requests say.
LEMMA PlanSays ==
  ASSUME NEW u \in Seq(WireRow), NEW s \in Seq(WireRow)
  PROVE  LET q == Requests([unsets |-> u, sets |-> s])
         IN /\ q \in Seq(Request) /\ (q = <<>> <=> u = <<>> /\ s = <<>>)
            /\ \A op, row : Says(q, op, row) <=>
                 (op = "unset" /\ Among(row, u)) \/ (op = "set" /\ Among(row, s))
<1> DEFINE B == Batches("unset", u)
           C == Batches("set", s)
<1>1. /\ B \in Seq(Request) /\ (B = <<>> <=> u = <<>>)
      /\ \A o, row : Says(B, o, row) <=> o = "unset" /\ Among(row, u)
  BY BatchesAre
<1>2. /\ C \in Seq(Request) /\ (C = <<>> <=> s = <<>>)
      /\ \A o, row : Says(C, o, row) <=> o = "set" /\ Among(row, s)
  BY BatchesAre
<1>3. Requests([unsets |-> u, sets |-> s]) = B \o C
  BY DEF Requests
<1> HIDE DEF B, C
<1>4. /\ B \o C \in Seq(Request)
      /\ B \o C = <<>> <=> B = <<>> /\ C = <<>>
      /\ \A op, row : Says(B \o C, op, row) <=> Says(B, op, row) \/ Says(C, op, row)
  BY <1>1, <1>2, SaysBoth
<1> QED BY <1>1, <1>2, <1>3, <1>4, Zenon

\* The file's values of those found: what nobody declares stays, what is not in the file goes.
LEMMA FileMakesIs ==
  ASSUME NEW d, NEW f, NEW c, NEW k \in Key
  PROVE  /\ ~Declares(d, k[1]) => FileMakes(d, f, c)[k] = c[k]
         /\ Declares(d, k[1]) /\ k \notin Names(f) => FileMakes(d, f, c)[k] = NoValue
         /\ Declares(d, k[1]) /\ k \in Names(f) /\ k[1] \in Secrets =>
              FileMakes(d, f, c)[k] = IF c[k] # NoValue THEN c[k] ELSE Entry(f, k).v
         /\ Declares(d, k[1]) /\ k \in Names(f) /\ k[1] \notin Secrets =>
              FileMakes(d, f, c)[k] = IF Entry(f, k).v \in Accepts[k[1]] THEN Entry(f, k).v ELSE c[k]
<1>1. FileMakes(d, f, c)[k] =
        CASE ~Declares(d, k[1]) -> c[k]
          [] Declares(d, k[1]) /\ k \notin Names(f) -> NoValue
          [] Declares(d, k[1]) /\ k \in Names(f) /\ k[1] \in Secrets ->
               IF c[k] # NoValue THEN c[k] ELSE Entry(f, k).v
          [] OTHER -> IF Entry(f, k).v \in Accepts[k[1]] THEN Entry(f, k).v ELSE c[k]
  BY DEF FileMakes
<1>2. CASE ~Declares(d, k[1])
  BY <1>1, <1>2
<1>3. CASE Declares(d, k[1]) /\ k \notin Names(f)
  BY <1>1, <1>3
<1>4. CASE Declares(d, k[1]) /\ k \in Names(f) /\ k[1] \in Secrets
  BY <1>1, <1>4
<1>5. CASE Declares(d, k[1]) /\ k \in Names(f) /\ k[1] \notin Secrets
  BY <1>1, <1>5
<1> QED BY <1>2, <1>3, <1>4, <1>5

\* A plan makes the file's values of those it was made of.
LEMMA PlanMakes ==
  ASSUME NEW c \in Conf, NEW d \in Decls, NEW f, FileOk(f)
  PROVE  LET p == PlanImport(d, Rows(c, d), f)
         IN /\ Requests(p) \in Seq(Request)
            /\ Requests(p) = <<>> <=> p = NoPlan
            /\ Makes(Requests(p), d, Key, c, FileMakes(d, f, c))
<1> DEFINE p == PlanImport(d, Rows(c, d), f)
           q == Requests(p)
           G == FileMakes(d, f, c)
<1>1. PICK u, s : p = [unsets |-> u, sets |-> s]
  BY DEF PlanImport
<1> HIDE DEF p
<1>2. /\ u \in Seq(WireRow) /\ s \in Seq(WireRow)
      /\ \A row : Among(row, u) => Unset(c, d, f, row)
      /\ \A n \in DOMAIN d, ch \in 1..Chans :
           c[<<d[n], ch>>] # NoValue /\ <<d[n], ch>> \notin Names(f)
             => \E row : Among(row, u) /\ At(d, row) = <<d[n], ch>>
      /\ \A row : Among(row, s) <=> \E e : SetTo(c, d, f, e) /\ row = WireOf(d, e)
  <2>1. p.unsets = u /\ p.sets = s
    BY <1>1
  <2>2. /\ p.unsets \in Seq(WireRow) /\ p.sets \in Seq(WireRow)
        /\ \A row : Among(row, p.unsets) => Unset(c, d, f, row)
        /\ \A n \in DOMAIN d, ch \in 1..Chans :
             c[<<d[n], ch>>] # NoValue /\ <<d[n], ch>> \notin Names(f)
               => \E row : Among(row, p.unsets) /\ At(d, row) = <<d[n], ch>>
        /\ \A row : Among(row, p.sets) <=> \E e : SetTo(c, d, f, e) /\ row = WireOf(d, e)
    BY PlanIs DEF p
  <2> QED BY <2>1, <2>2, Zenon
<1>3. /\ q \in Seq(Request) /\ (q = <<>> <=> u = <<>> /\ s = <<>>)
      /\ \A op, row : Says(q, op, row) <=>
           (op = "unset" /\ Among(row, u)) \/ (op = "set" /\ Among(row, s))
  BY <1>1, <1>2, PlanSays
<1> HIDE DEF q
<1>4. q = <<>> <=> p = NoPlan
  BY <1>1, <1>3 DEF NoPlan
<1>8. ASSUME NEW k \in Key
      PROVE  /\ ~Declares(d, k[1]) => G[k] = c[k]
             /\ Declares(d, k[1]) /\ k \notin Names(f) => G[k] = NoValue
             /\ Declares(d, k[1]) /\ k \in Names(f) /\ k[1] \in Secrets =>
                  G[k] = IF c[k] # NoValue THEN c[k] ELSE Entry(f, k).v
             /\ Declares(d, k[1]) /\ k \in Names(f) /\ k[1] \notin Secrets =>
                  G[k] = IF Entry(f, k).v \in Accepts[k[1]] THEN Entry(f, k).v ELSE c[k]
  BY FileMakesIs
<1> HIDE DEF G
<1>5. ASSUME NEW op, NEW row, Says(q, op, row)
      PROVE  row.n \in DOMAIN d /\ At(d, row) \in Key /\ G[At(d, row)] = Gives(op, row)
  <2>1. CASE op = "unset" /\ Among(row, u)
    <3>1. /\ row.n \in DOMAIN d /\ At(d, row) \in Key /\ At(d, row) \notin Names(f)
      BY <1>2, <2>1, Zenon DEF Unset
    <3>2. Declares(d, At(d, row)[1])
      BY <3>1 DEF At, Declares
    <3>3. G[At(d, row)] = NoValue
      BY <3>1, <3>2, <1>8, Zenon
    <3> QED BY <2>1, <3>1, <3>3 DEF Gives
  <2>2. CASE op = "set" /\ Among(row, s)
    <3>1. PICK e : SetTo(c, d, f, e) /\ row = WireOf(d, e)
      BY <1>2, <2>2, Zenon
    <3>2. PICK i \in DOMAIN f : f[i] = e
      BY <3>1, Zenon DEF SetTo
    <3>3. /\ Entry(f, FileKey(e)) = e /\ FileKey(e) \in Names(f) /\ e \in FileRow /\ FileKey(e) \in Key
      BY <3>2, EntryIs
    <3>4. FileKey(e)[1] = e.item
      BY DEF FileKey
    <3>5. Declares(d, e.item)
      BY <3>1, Zenon DEF SetTo
    <3>6. row.n \in DOMAIN d /\ row.v = e.v /\ At(d, row) = FileKey(e)
      BY <3>1, <3>3, <3>5, WireIs
    <3>7. G[FileKey(e)] = e.v
      <4>1. CASE e.item \notin Secrets
        BY <3>1, <3>3, <3>4, <3>5, <4>1, <1>8 DEF SetTo
      <4>2. CASE e.item \in Secrets
        BY <3>1, <3>3, <3>4, <3>5, <4>2, <1>8 DEF SetTo
      <4> QED BY <4>1, <4>2
    <3> QED BY <2>2, <3>3, <3>6, <3>7 DEF Gives
  <2> QED BY <1>3, <1>5, <2>1, <2>2
<1>6. ASSUME NEW k \in Key, c[k] # G[k]
      PROVE  \E op, row : Says(q, op, row) /\ At(d, row) = k
  <2>1. Declares(d, k[1])
    BY <1>6, <1>8, Zenon
  <2>2. PICK n \in DOMAIN d : d[n] = k[1]
    BY <2>1, Zenon DEF Declares
  <2>3. k[2] \in 1..Chans /\ k = <<k[1], k[2]>>
    BY DEF Key
  <2>4. CASE k \notin Names(f)
    <3>1. c[k] # NoValue
      BY <1>6, <2>1, <2>4, <1>8, Zenon
    <3>2. \E row : Among(row, u) /\ At(d, row) = k
      <4>1. k = <<d[n], k[2]>>
        BY <2>2, <2>3
      <4> QED BY <1>2, <2>3, <2>4, <3>1, <4>1, Zenon
    <3> QED BY <1>3, <3>2, Zenon
  <2>5. CASE k \in Names(f)
    <3>1. PICK i \in DOMAIN f : k = FileKey(f[i])
      BY <2>5, Zenon DEF Names
    <3>2. PICK e : e = f[i]
      OBVIOUS
    <3>3. Entry(f, k) = e /\ e \in FileRow /\ k = FileKey(e)
      BY <3>1, <3>2, EntryIs
    <3>4. k[1] = e.item
      BY <3>3 DEF FileKey
    <3>5. SetTo(c, d, f, e)
      <4>1. CASE k[1] \in Secrets
        <5>1. c[k] = NoValue /\ e.v # NoValue
          BY <1>6, <2>1, <2>5, <3>3, <4>1, <1>8, Zenon
        <5> QED BY <2>1, <3>1, <3>2, <3>3, <3>4, <4>1, <5>1, Zenon DEF SetTo
      <4>2. CASE k[1] \notin Secrets
        <5>1. e.v \in Accepts[k[1]] /\ c[k] # e.v
          BY <1>6, <2>1, <2>5, <3>3, <4>2, <1>8, Zenon
        <5> QED BY <2>1, <3>1, <3>2, <3>3, <3>4, <4>2, <5>1, Zenon DEF SetTo
      <4> QED BY <4>1, <4>2
    <3>6. Among(WireOf(d, e), s)
      BY <1>2, <3>5, Zenon
    <3>7. At(d, WireOf(d, e)) = k
      BY <3>3, <3>4, <2>1, WireIs
    <3> QED BY <1>3, <3>6, <3>7, Zenon
  <2> QED BY <2>4, <2>5
<1>7. Makes(q, d, Key, c, G)
  BY <1>3, <1>5, <1>6, MakesBySaying, Zenon
<1> QED BY <1>3, <1>4, <1>7 DEF p, q, G

\* A plan of any rows is one of requests that can be sent.
LEMMA PlanIsOne ==
  ASSUME NEW d \in Decls, NEW rows \in Seq(WireRow), NEW f, FileOk(f)
  PROVE  PlanImport(d, rows, f) \in Plan
<1> DEFINE IU == {i \in DOMAIN rows : Unwanted(d, f, rows[i])}
           IW == {i \in DOMAIN f : Wanted(d, rows, f[i])}
           IS == {i \in DOMAIN f : Supplied(d, rows, f[i])}
           W == Those(f, IW)
           X == Those(f, IS)
<1>1. f \in Seq(FileRow)
  BY DEF FileOk
<1>2. Those(rows, IU) \in Seq(WireRow) /\ W \in Seq(FileRow) /\ X \in Seq(FileRow)
  BY <1>1, ThoseAre
<1>3. /\ \A i \in 1..Len(W) : \E k \in IW : W[i] = f[k]
      /\ \A i \in 1..Len(X) : \E k \in IS : X[i] = f[k]
  <2>1. MadeOf(W, f, IW) /\ MadeOf(X, f, IS)
    BY <1>1, ThoseAre
  <2> HIDE DEF W, X, IW, IS
  <2> QED BY <2>1, Zenon DEF MadeOf
<1>4. \A k \in IW \cup IS : Declares(d, f[k].item)
  BY DEF Wanted, Supplied
<1>5. (\A i \in 1..Len(W) : Declares(d, W[i].item)) /\ (\A i \in 1..Len(X) : Declares(d, X[i].item))
  <2> HIDE DEF W, X, IW, IS
  <2> QED BY <1>3, <1>4, Zenon
<1> HIDE DEF W, X
<1>6. AsWire(d, W) \in Seq(WireRow) /\ AsWire(d, X) \in Seq(WireRow)
  BY <1>2, <1>5, WiresAre
<1>7. AsWire(d, W) \o AsWire(d, X) \in Seq(WireRow)
  BY <1>6
<1>8. PlanImport(d, rows, f) = [unsets |-> Those(rows, IU), sets |-> AsWire(d, W) \o AsWire(d, X)]
  BY DEF PlanImport, W, X
<1> QED BY <1>2, <1>7, <1>8 DEF Plan

\* The requests of a plan.
LEMMA PlanRequests ==
  ASSUME NEW p \in Plan
  PROVE  Requests(p) \in Seq(Request) /\ (Requests(p) = <<>> <=> p = NoPlan)
<1>1. PICK u \in Seq(WireRow), s \in Seq(WireRow) : p = [unsets |-> u, sets |-> s]
  BY DEF Plan
<1>2. Requests(p) \in Seq(Request) /\ (Requests(p) = <<>> <=> u = <<>> /\ s = <<>>)
  BY <1>1, PlanSays
<1> QED BY <1>1, <1>2 DEF NoPlan

\* set_named: the file's entries, when this firmware declares them all.
LEMMA SetMakes ==
  ASSUME NEW d \in Decls, NEW f, FileOk(f), f # <<>>, NEW c, \A i \in DOMAIN f : Declares(d, f[i].item)
  PROVE  LET q == Batches("set", AsWire(d, f))
         IN q \in Seq(Request) /\ q # <<>> /\ Makes(q, d, Names(f), c, [k \in Names(f) |-> Entry(f, k).v])
<1> DEFINE q == Batches("set", AsWire(d, f))
           G == [k \in Names(f) |-> Entry(f, k).v]
<1>1. f \in Seq(FileRow) /\ DOMAIN f = 1..Len(f) /\ \A i \in 1..Len(f) : f[i] \in FileRow
  BY DEF FileOk
<1>2. /\ AsWire(d, f) \in Seq(WireRow)
      /\ \A row : Among(row, AsWire(d, f)) <=> \E e : Among(e, f) /\ row = WireOf(d, e)
  BY <1>1, WiresAre
<1>3. /\ q \in Seq(Request) /\ (q = <<>> <=> AsWire(d, f) = <<>>)
      /\ \A o, row : Says(q, o, row) <=> o = "set" /\ Among(row, AsWire(d, f))
  BY <1>2, BatchesAre
<1> HIDE DEF q
<1>4. ASSUME NEW i \in DOMAIN f
      PROVE  LET row == WireOf(d, f[i])
             IN /\ row.n \in DOMAIN d /\ At(d, row) = FileKey(f[i]) /\ FileKey(f[i]) \in Names(f)
                /\ G[FileKey(f[i])] = row.v /\ Says(q, "set", row)
  <2>1. Entry(f, FileKey(f[i])) = f[i] /\ FileKey(f[i]) \in Names(f) /\ f[i] \in FileRow
    BY EntryIs
  <2>2. WireOf(d, f[i]).n \in DOMAIN d /\ WireOf(d, f[i]).v = f[i].v /\ At(d, WireOf(d, f[i])) = FileKey(f[i])
    BY <2>1, WireIs
  <2>3. Says(q, "set", WireOf(d, f[i]))
    <3>1. Among(f[i], f)
      BY <1>1 DEF Among
    <3> QED BY <1>2, <1>3, <3>1, Zenon
  <2>4. G[FileKey(f[i])] = f[i].v
    BY <2>1
  <2> QED BY <2>1, <2>2, <2>3, <2>4
<1> HIDE DEF G
<1>5. ASSUME NEW op, NEW row, Says(q, op, row)
      PROVE  row.n \in DOMAIN d /\ At(d, row) \in Names(f) /\ G[At(d, row)] = Gives(op, row)
  <2>1. PICK e : Among(e, f) /\ row = WireOf(d, e) /\ op = "set"
    BY <1>2, <1>3, <1>5, Zenon
  <2>2. PICK i \in DOMAIN f : e = f[i]
    BY <1>1, <2>1 DEF Among
  <2> QED BY <1>4, <2>1, <2>2 DEF Gives
<1>6. ASSUME NEW k \in Names(f)
      PROVE  \E op, row : Says(q, op, row) /\ At(d, row) = k
  <2>1. PICK i \in DOMAIN f : k = FileKey(f[i])
    BY Zenon DEF Names
  <2> QED BY <1>4, <2>1, Zenon
<1>7. Makes(q, d, Names(f), c, G)
  BY <1>3, <1>5, <1>6, MakesBySaying
<1>8. q # <<>>
  <2>1. 1 \in DOMAIN f
    BY <1>1
  <2>2. Says(q, "set", WireOf(d, f[1]))
    BY <1>4, <2>1
  <2> QED BY <2>2 DEF Says
<1> QED BY <1>3, <1>7, <1>8 DEF q, G

\* unset_all: all that get lists away leaves nothing.
LEMMA AwayMakes ==
  ASSUME NEW c \in Conf, NEW d \in Decls, Declared(c, d)
  PROVE  Makes(Batches("unset", Rows(c, d)), d, Key, c, Empty)
<1> DEFINE R == Rows(c, d)
           q == Batches("unset", R)
<1>1. /\ R \in Seq(WireRow)
      /\ \A i \in 1..Len(R) : R[i].n \in DOMAIN d /\ At(d, R[i]) \in Key
      /\ \A x \in DOMAIN d, y \in 1..Chans :
           c[<<d[x], y>>] # NoValue => \E i \in 1..Len(R) : R[i].n = x /\ R[i].ch = y
  BY RowsAre
<1> HIDE DEF R
<1>2. q \in Seq(Request) /\ \A o, row : Says(q, o, row) <=> o = "unset" /\ Among(row, R)
  BY <1>1, BatchesAre
<1> HIDE DEF q
<1>3. ASSUME NEW op, NEW row, Says(q, op, row)
      PROVE  row.n \in DOMAIN d /\ At(d, row) \in Key /\ Empty[At(d, row)] = Gives(op, row)
  <2>1. PICK i \in 1..Len(R) : row = R[i] /\ op = "unset"
    BY <1>2, <1>3 DEF Among
  <2> QED BY <1>1, <2>1 DEF Gives, Empty
<1>4. ASSUME NEW k \in Key, c[k] # Empty[k]
      PROVE  \E op, row : Says(q, op, row) /\ At(d, row) = k
  <2>1. c[k] # NoValue
    BY <1>4 DEF Empty
  <2>2. PICK x \in DOMAIN d : d[x] = k[1]
    BY <2>1 DEF Declared, Declares
  <2>3. k[2] \in 1..Chans /\ k = <<d[x], k[2]>>
    BY <2>2 DEF Key
  <2>4. PICK i \in 1..Len(R) : R[i].n = x /\ R[i].ch = k[2]
    BY <1>1, <2>1, <2>2, <2>3
  <2>5. Says(q, "unset", R[i])
    BY <1>2 DEF Among
  <2>6. At(d, R[i]) = k
    BY <2>3, <2>4 DEF At
  <2> QED BY <2>5, <2>6
<1>5. Makes(q, d, Key, c, Empty)
  BY <1>2, <1>3, <1>4, MakesBySaying
<1> QED BY <1>5 DEF q, R

\* What a request makes of the values.
LEMMA AfterIs ==
  ASSUME NEW op \in {"set", "unset"}, NEW rows, NEW k \in Key
  PROVE  /\ (\A i \in DOMAIN rows : KeyOf(rows[i]) # k) => After(op, rows)[k] = conf[k]
         /\ (\E i \in DOMAIN rows : KeyOf(rows[i]) = k) =>
              \E i \in DOMAIN rows : KeyOf(rows[i]) = k /\ After(op, rows)[k] = Gives(op, rows[i])
<1> DEFINE mine == {i \in DOMAIN rows : KeyOf(rows[i]) = k}
<1>1. After(op, rows)[k] = CASE mine = {} -> conf[k]
                             [] op = "unset" /\ mine # {} -> NoValue
                             [] OTHER -> rows[CHOOSE i \in mine : TRUE].v
  BY DEF After
<1>2. CASE mine = {}
  BY <1>1, <1>2
<1>3. CASE mine # {} /\ op = "unset"
  BY <1>1, <1>3 DEF Gives
<1>4. CASE mine # {} /\ op = "set"
  <2>1. PICK i : i = CHOOSE j \in mine : TRUE
    OBVIOUS
  <2>2. i \in mine
    BY <1>4, <2>1
  <2>3. After(op, rows)[k] = rows[i].v
    BY <1>1, <1>4, <2>1
  <2> QED BY <1>4, <2>2, <2>3 DEF Gives
<1> QED BY <1>2, <1>3, <1>4

\* The values the probe takes are values, of items it declares.
LEMMA AfterOk ==
  ASSUME NEW op \in {"set", "unset"}, NEW rows, Takes(op, rows),
         conf \in Conf, decl \in Decls, Declared(conf, decl)
  PROVE  After(op, rows) \in Conf /\ Declared(After(op, rows), decl)
<1> DEFINE new == After(op, rows)
<1>1. \A i \in DOMAIN rows : rows[i].n \in DOMAIN decl /\ (op = "set" => rows[i].v \in Accepts[decl[rows[i].n]])
  BY DEF Takes, Known
<1>2. ASSUME NEW k \in Key
      PROVE  new[k] \in Value \cup {NoValue} /\ (new[k] # NoValue => Declares(decl, k[1]))
  <2>1. CASE \A i \in DOMAIN rows : KeyOf(rows[i]) # k
    <3>1. new[k] = conf[k]
      BY <2>1, AfterIs
    <3> QED BY <3>1 DEF Conf, Declared
  <2>2. CASE \E i \in DOMAIN rows : KeyOf(rows[i]) = k
    <3>1. PICK i \in DOMAIN rows : KeyOf(rows[i]) = k /\ new[k] = Gives(op, rows[i])
      BY <2>2, AfterIs
    <3>2. k[1] = decl[rows[i].n] /\ rows[i].n \in DOMAIN decl
      BY <1>1, <3>1 DEF KeyOf
    <3>3. Declares(decl, k[1])
      BY <3>2 DEF Declares
    <3>4. new[k] \in Value \cup {NoValue}
      <4>1. CASE op = "unset"
        BY <3>1, <4>1 DEF Gives
      <4>2. CASE op = "set"
        <5>1. new[k] \in Accepts[k[1]]
          BY <1>1, <3>1, <3>2, <4>2 DEF Gives
        <5>2. k[1] \in Item
          BY DEF Key
        <5> QED BY <5>1, <5>2 DEF Value
      <4> QED BY <4>1, <4>2
    <3> QED BY <3>3, <3>4
  <2> QED BY <2>1, <2>2
<1>3. new = [k \in Key |-> new[k]]
  BY DEF After
<1> HIDE DEF new
<1>4. new \in Conf
  BY <1>2, <1>3 DEF Conf
<1> QED BY <1>2, <1>4 DEF new, Declared

\* A request made: the others make the rest.
LEMMA SendMakes ==
  ASSUME NEW q \in Seq(Request), q # <<>>, NEW K \in SUBSET Key, NEW G, Makes(q, decl, K, conf, G)
  PROVE  Makes(Tail(q), decl, K, After(Head(q).op, Head(q).rows), G)
<1>1. PICK n \in Nat : n + 1 = Len(q) /\ DOMAIN q = 1..(n + 1)
  BY EmptySeq
<1>2. PICK t \in Seq(Request) : t = Tail(q) /\ Len(t) = n /\ \A i \in 1..n : t[i] = q[i + 1]
  <2>1. /\ Tail(q) \in Seq(Request) /\ Len(Tail(q)) = Len(q) - 1
        /\ \A i \in 1..Len(Tail(q)) : Tail(q)[i] = q[i + 1]
    BY HeadTailProperties, Zenon
  <2>2. Len(q) - 1 = n
    BY <1>1
  <2> QED BY <2>1, <2>2, Zenon
<1>3. DOMAIN t = 1..n
  BY <1>2
<1>4. PICK op \in {"set", "unset"}, rows \in Seq(WireRow) : Head(q).op = op /\ Head(q).rows = rows /\ q[1].op = op /\ q[1].rows = rows
  <2>1. Head(q) = q[1]
    BY <1>1
  <2>2. PICK r \in Request : r = q[1]
    <3>1. 1 \in 1..(n + 1)
      OBVIOUS
    <3> QED BY <1>1, <3>1
  <2>3. r.op \in {"set", "unset"} /\ r.rows \in Seq(WireRow)
    BY DEF Request
  <2> QED BY <2>1, <2>2, <2>3, Zenon
<1>5. /\ \A b \in DOMAIN q : \A i \in DOMAIN q[b].rows :
           /\ q[b].rows[i].n \in DOMAIN decl /\ At(decl, q[b].rows[i]) \in K
           /\ G[At(decl, q[b].rows[i])] = Gives(q[b].op, q[b].rows[i])
      /\ \A k \in K : conf[k] = G[k] \/ \E b \in DOMAIN q : \E i \in DOMAIN q[b].rows : At(decl, q[b].rows[i]) = k
  BY Zenon DEF Makes
<1>6. ASSUME NEW b \in DOMAIN t, NEW i \in DOMAIN t[b].rows
      PROVE  /\ t[b].rows[i].n \in DOMAIN decl /\ At(decl, t[b].rows[i]) \in K
             /\ G[At(decl, t[b].rows[i])] = Gives(t[b].op, t[b].rows[i])
  <2>1. b + 1 \in DOMAIN q /\ t[b] = q[b + 1]
    BY <1>1, <1>2, <1>3
  <2> QED BY <1>5, <2>1
<1> DEFINE new == After(op, rows)
<1>7. ASSUME NEW k \in K
      PROVE  new[k] = G[k] \/ \E b \in DOMAIN t : \E i \in DOMAIN t[b].rows : At(decl, t[b].rows[i]) = k
  <2>1. CASE \E i \in DOMAIN rows : KeyOf(rows[i]) = k
    <3>1. PICK i \in DOMAIN rows : KeyOf(rows[i]) = k /\ new[k] = Gives(op, rows[i])
      BY <2>1, AfterIs
    <3>2. 1 \in DOMAIN q
      BY <1>1
    <3>3. At(decl, rows[i]) = k
      BY <3>1 DEF KeyOf, At
    <3> QED BY <1>4, <1>5, <3>1, <3>2, <3>3
  <2>2. CASE \A i \in DOMAIN rows : KeyOf(rows[i]) # k
    <3>1. new[k] = conf[k]
      BY <2>2, AfterIs
    <3>2. CASE conf[k] = G[k]
      BY <3>1, <3>2
    <3>3. CASE \E b \in DOMAIN q : \E i \in DOMAIN q[b].rows : At(decl, q[b].rows[i]) = k
      <4>1. PICK b \in 1..(n + 1) : \E i \in DOMAIN q[b].rows : At(decl, q[b].rows[i]) = k
        BY <1>1, <3>3
      <4>2. b # 1
        BY <1>4, <2>2, <4>1 DEF KeyOf, At
      <4>3. PICK a \in DOMAIN t : a + 1 = b
        <5>1. b - 1 \in 1..n /\ (b - 1) + 1 = b
          BY <4>2
        <5> QED BY <1>3, <5>1
      <4>4. t[a] = q[b]
        BY <1>2, <1>3, <4>3
      <4> QED BY <4>1, <4>4
    <3> QED BY <1>5, <3>2, <3>3
  <2> QED BY <2>1, <2>2
<1> HIDE DEF new
<1>8. Makes(t, decl, K, new, G)
  BY <1>6, <1>7, Zenon DEF Makes
<1> QED BY <1>2, <1>4, <1>8 DEF new

\* A reading that began in this boot ends with the values of now.
LEMMA WholeRead ==
  ASSUME PagesInv, ~StartOver, first = 0 \/ pages = boot,
         Len(out \o Page(Rows(conf, decl))) >= Len(Rows(conf, decl))
  PROVE  out \o Page(Rows(conf, decl)) = Rows(conf, decl)
<1>1. Prefix(conf, decl)
  <2>1. CASE first = 0
    BY <2>1, NothingRead DEF PagesInv
  <2>2. CASE first # 0
    BY <2>2 DEF StartOver, PagesInv
  <2> QED BY <2>1, <2>2
<1> QED BY <1>1, PagesJoin DEF PagesInv

\* A page is rows.
LEMMA PageIs ==
  ASSUME conf \in Conf, decl \in Decls, out \in Seq(WireRow)
  PROVE  out \o Page(Rows(conf, decl)) \in Seq(WireRow)
<1> DEFINE now == Rows(conf, decl)
<1>1. now \in Seq(WireRow)
  BY RowsAre
<1> HIDE DEF now
<1>2. PICK k \in Nat, m \in Nat : k = Len(out) /\ m = Len(now) /\ DOMAIN now = 1..m
  BY <1>1
<1>3. PICK n \in Int : n <= m /\ Page(now) = SubSeq(now, k + 1, n)
  <2>1. PICK n \in Int : n = (IF k + PerPage < m THEN k + PerPage ELSE m) /\ n <= m
    BY <1>2, SettingsAssumption
  <2> QED BY <1>2, <2>1 DEF Page
<1>4. \A i \in (k + 1)..n : now[i] \in WireRow
  BY <1>1, <1>2, <1>3
<1>5. Page(now) \in Seq(WireRow)
  BY <1>3, <1>4, SubSeqProperties
<1> QED BY <1>5 DEF now

\* A boot's values are of the items its firmware declares.
LEMMA BootOk ==
  ASSUME NEW s, s.conf \in Conf, NEW d
  PROVE  BootConf(s, d) \in Conf /\ Declared(BootConf(s, d), d)
<1>1. \A c \in Conf : TakenBy(d, c) \in Conf /\ Declared(TakenBy(d, c), d)
  BY DEF TakenBy, Conf, Declared
<1>2. Initial \in Conf
  BY SettingsAssumption
<1> QED BY <1>1, <1>2 DEF BootConf

---------------------------------------------------------------------------
(* The steps. *)

\* TypesInv holds at first.
LEMMA TypesInit == Init => TypesInv
<1> SUFFICES ASSUME Init PROVE TypesInv
  OBVIOUS
<1>1. saved.conf \in Conf
  BY SettingsAssumption DEF Init, FirstSave
<1>2. conf \in Conf /\ Declared(conf, decl)
  BY <1>1, BootOk DEF Init
<1>3. cat = [decl |-> <<>>, boot |-> 0] /\ boot = 1 /\ at = "idle" /\ todo = <<>> /\ out = <<>>
      /\ decl \in Decls /\ job \in Commands
  BY DEF Init
<1>4. plan \in Plan
  BY DEF Init, NoPlan, Plan
<1> QED BY <1>1, <1>2, <1>3, <1>4 DEF TypesInv

\* A step of the host that leaves the values.
LEMMA TypesHost ==
  ASSUME TypesInv, UNCHANGED <<decl, boot, conf, saved, job>>,
         cat' = cat \/ cat' = [decl |-> decl, boot |-> boot],
         at' = "plan" => (at = "plan" \/ cat' = [decl |-> decl, boot |-> boot]),
         out' \in Seq(WireRow), plan' \in Plan, todo' \in Seq(Request), at' = "send" => todo' # <<>>
  PROVE  TypesInv'
<1>1. conf' \in Conf /\ saved'.conf \in Conf /\ decl' \in Decls /\ job' \in Commands /\ boot' \in Nat \ {0}
      /\ Declared(conf', decl')
  BY DEF TypesInv
<1>2. cat'.boot \in 0..boot' /\ (cat'.boot = boot' => cat'.decl = decl')
  BY DEF TypesInv
<1>3. at' = "plan" => cat'.decl \in Decls
  BY DEF TypesInv
<1> QED BY <1>1, <1>2, <1>3 DEF TypesInv

\* A step of the others: the host keeps what it has.
LEMMA TypesOthers ==
  ASSUME TypesInv, UNCHANGED <<job, cat, at, out, plan, todo>>,
         conf' \in Conf, saved'.conf \in Conf, decl' \in Decls, Declared(conf', decl'),
         UNCHANGED <<decl, boot>> \/ boot' = boot + 1
  PROVE  TypesInv'
<1>1. boot' \in Nat \ {0} /\ cat.boot \in 0..boot'
  BY DEF TypesInv
<1>2. cat.boot = boot' => cat.decl = decl'
  BY DEF TypesInv
<1> QED BY <1>1, <1>2 DEF TypesInv

\* What is saved are values.
LEMMA StoreOk ==
  ASSUME NEW how, Store(how), conf \in Conf, saved.conf \in Conf
  PROVE  saved'.conf \in Conf
BY SettingsAssumption DEF Store

\* A page, or the end of a reading.
LEMMA TypesRead ==
  ASSUME TypesInv, PlanInv, ReadPage
  PROVE  TypesInv'
<1> DEFINE rows == out \o Page(Rows(conf, decl))
<1>1. UNCHANGED <<decl, boot, conf, saved, job, cat>>
  BY DEF ReadPage, probeVars
<1>2. rows \in Seq(WireRow)
  BY PageIs DEF TypesInv
<1>3. out' \in Seq(WireRow)
  <2>1. out' \in {rows, <<>>}
    BY Zenon DEF ReadPage, Again
  <2>2. <<>> \in Seq(WireRow)
    OBVIOUS
  <2> HIDE DEF rows
  <2> QED BY <1>2, <2>1, <2>2, Zenon
<1>4. at' = "plan" => at = "plan"
  BY DEF ReadPage, Planned, AllAway, Checked, Finish, Saving
<1>5. plan' \in Plan /\ todo' \in Seq(Request) /\ (at' = "send" => todo' # <<>>)
  <2>1. CASE UNCHANGED <<at, plan, todo>>
    BY <2>1 DEF TypesInv
  <2>2. CASE at = "plan" /\ Planned(rows)
    <3>1. PlanImport(cat.decl, rows, job.file) \in Plan
      BY <1>2, <2>2, FilesOk, PlanIsOne DEF TypesInv
    <3>2. plan' = PlanImport(cat.decl, rows, job.file) /\ todo' = todo /\ at' # "send"
      BY <2>2 DEF Planned, Finish
    <3> QED BY <3>1, <3>2 DEF TypesInv
  <2>3. CASE AllAway(rows)
    <3>1. Batches("unset", rows) \in Seq(Request) /\ (Batches("unset", rows) = <<>> <=> rows = <<>>)
      BY <1>2, BatchesAre
    <3> QED BY <2>3, <3>1 DEF AllAway, Saving, TypesInv
  <2>4. CASE Checked(gen)
    BY <2>4 DEF Checked, TypesInv
  <2> QED BY <2>1, <2>2, <2>3, <2>4 DEF ReadPage
<1> HIDE DEF rows
<1> QED BY <1>1, <1>3, <1>4, <1>5, TypesHost

\* The lock is taken, with the plan's requests.
LEMMA TypesTake ==
  ASSUME TypesInv, Take
  PROVE  TypesInv'
<1>1. UNCHANGED <<decl, boot, conf, saved, job, cat, out, plan>> /\ at' # "plan"
  BY DEF Take, Finish, Saving
<1>2. todo' \in Seq(Request) /\ (at' = "send" => todo' # <<>>)
  <2>1. plan \in Plan /\ todo \in Seq(Request)
    BY DEF TypesInv
  <2>2. Requests(plan) \in Seq(Request) /\ (Requests(plan) = <<>> <=> plan = NoPlan)
    BY <2>1, PlanRequests
  <2> QED BY <2>1, <2>2 DEF Take, Finish, Saving
<1> QED BY <1>1, <1>2, TypesHost DEF TypesInv

\* The names of now, and the file's entries.
LEMMA TypesResolve ==
  ASSUME TypesInv, PlanInv, Resolve
  PROVE  TypesInv'
<1>1. UNCHANGED <<decl, boot, conf, saved, job, out, plan>> /\ at' # "plan" /\ cat' = [decl |-> decl, boot |-> boot]
  BY DEF Resolve, Refused, probeVars
<1>2. todo' \in Seq(Request) /\ (at' = "send" => todo' # <<>>)
  <2>1. CASE Refused /\ UNCHANGED todo
    BY <2>1 DEF Refused, TypesInv
  <2>2. CASE /\ \A i \in DOMAIN job.file : Declares(decl, job.file[i].item)
             /\ todo' = Batches("set", AsWire(decl, job.file))
    <3>1. job.file # <<>>
      BY SettingsAssumption DEF Resolve, PlanInv, TypesInv
    <3> QED BY <2>2, <3>1, FilesOk, SetMakes DEF TypesInv
  <2> QED BY <2>1, <2>2 DEF Resolve
<1> QED BY <1>1, <1>2, TypesHost DEF TypesInv

\* One request.
LEMMA TypesSend ==
  ASSUME TypesInv, Send
  PROVE  TypesInv'
<1>1. todo \in Seq(Request) /\ todo # <<>> /\ conf \in Conf /\ decl \in Decls /\ Declared(conf, decl)
  BY DEF TypesInv, Send
<1>2. UNCHANGED <<decl, boot, saved, job, cat, out, plan>> /\ at' # "plan"
  BY DEF Send, Refused, Saving, pastVars
<1>3. Tail(todo) \in Seq(Request) /\ Head(todo) \in Request /\ (Len(todo) # 1 => Tail(todo) # <<>>)
  <2>1. Tail(todo) \in Seq(Request) /\ Head(todo) \in Request /\ Len(Tail(todo)) = Len(todo) - 1
    BY <1>1, HeadTailProperties, Zenon
  <2>2. Len(todo) \in Nat
    BY <1>1
  <2>3. Tail(todo) = <<>> => Len(Tail(todo)) = 0
    <3>1. Len(<<>>) = 0
      OBVIOUS
    <3> QED BY <3>1, Zenon
  <2>4. Len(todo) # 1 => Len(Tail(todo)) # 0
    BY <2>1, <2>2
  <2> QED BY <2>1, <2>3, <2>4, Zenon
<1>4. todo' \in Seq(Request) /\ (at' = "send" => todo' # <<>>)
  <2>1. CASE todo' = Tail(todo) /\ at' = IF Len(todo) = 1 THEN Saving ELSE "send"
    BY <1>3, <2>1, Zenon DEF Saving
  <2>2. CASE Refused /\ todo' = <<>>
    <3>1. <<>> \in Seq(Request)
      OBVIOUS
    <3> QED BY <2>2, <3>1, Zenon DEF Refused
  <2> QED BY <2>1, <2>2, Zenon DEF Send
<1>5. conf' \in Conf /\ Declared(conf', decl)
  <2>1. CASE conf' = conf
    BY <1>1, <2>1
  <2>2. CASE Takes(Head(todo).op, Head(todo).rows) /\ Change(Head(todo).op, Head(todo).rows)
    <3>1. Head(todo).op \in {"set", "unset"}
      BY <1>3 DEF Request
    <3> QED BY <1>1, <2>2, <3>1, AfterOk DEF Change
  <2> QED BY <2>1, <2>2 DEF Send
<1> QED BY <1>2, <1>4, <1>5 DEF TypesInv

\* TypesInv holds after every step.
LEMMA TypesStep == TypesInv /\ PlanInv /\ [Next]_vars => TypesInv'
<1> SUFFICES ASSUME TypesInv, PlanInv, [Next]_vars PROVE TypesInv'
  OBVIOUS
<1>0. /\ conf \in Conf /\ saved.conf \in Conf /\ decl \in Decls /\ Declared(conf, decl)
      /\ out \in Seq(WireRow) /\ plan \in Plan /\ todo \in Seq(Request) /\ (at = "send" => todo # <<>>)
  BY DEF TypesInv
<1>1. CASE Begin
  BY <1>0, <1>1, TypesHost DEF Begin, probeVars
<1>2. CASE Answer
  BY <1>0, <1>2, TypesHost DEF Answer, Finish, probeVars
<1>3. CASE ReadState
  BY <1>0, <1>3, TypesHost DEF ReadState, probeVars
<1>4. CASE Save
  <2>1. saved'.conf \in Conf
    BY <1>0, <1>4, StoreOk DEF Save
  <2>2. UNCHANGED <<decl, boot, conf, job, cat, out, plan, todo>> /\ at' \in {"end"}
    BY <1>4 DEF Save, Refused, pastVars
  <2> QED BY <2>1, <2>2 DEF TypesInv
<1>5. CASE End
  BY <1>0, <1>5, TypesHost DEF End, Finish
<1>6. CASE Break
  BY <1>0, <1>6, TypesHost DEF Break, Finish, probeVars
<1>7. CASE Lapse
  BY <1>0, <1>7, TypesOthers DEF Lapse, hostVars
<1>8. CASE OtherTakes
  BY <1>0, <1>8, TypesOthers DEF OtherTakes, hostVars
<1>9. CASE OtherChanges
  <2>1. PICK r \in OtherRows : LET rows == <<[n |-> r.n, ch |-> r.ch, v |-> r.v]>>
                               IN Takes(r.op, rows) /\ Change(r.op, rows)
    BY <1>9, Zenon DEF OtherChanges
  <2>2. r.op \in {"set", "unset"}
    BY SettingsAssumption
  <2>3. conf' \in Conf /\ Declared(conf', decl)
    BY <1>0, <2>1, <2>2, AfterOk DEF Change
  <2> QED BY <1>0, <1>9, <2>3, TypesOthers DEF OtherChanges, hostVars
<1>10. CASE OtherSaves
  <2>1. saved'.conf \in Conf
    BY <1>0, <1>10, StoreOk DEF OtherSaves
  <2> QED BY <1>0, <1>10, <2>1, TypesOthers DEF OtherSaves, hostVars
<1>11. CASE Reboot
  <2>1. decl' \in Decls /\ conf' = BootConf(saved, decl') /\ boot' = boot + 1 /\ UNCHANGED <<saved, hostVars>>
    BY <1>11 DEF Reboot
  <2>2. conf' \in Conf /\ Declared(conf', decl')
    BY <1>0, <2>1, BootOk
  <2> QED BY <1>0, <2>1, <2>2, TypesOthers DEF hostVars
<1>12. CASE UNCHANGED vars
  BY <1>0, <1>12, TypesOthers DEF vars, probeVars, hostVars
<1> QED BY <1>1, <1>2, <1>3, <1>4, <1>5, <1>6, <1>7, <1>8, <1>9, <1>10, <1>11, <1>12,
           TypesRead, TypesTake, TypesResolve, TypesSend DEF Next

\* PlanInv holds at first.
LEMMA PlanInit == Init => PlanInv
BY DEF Init, PlanInv

\* A step that leaves the command where it is, and its names and its reading alone.
LEMMA PlanStays ==
  ASSUME PlanInv, TypesInv, UNCHANGED <<job, at, cat, first, plan, pages, found>>,
         UNCHANGED boot \/ boot' = boot + 1,
         holder' = "host" => holder = "host" /\ boot' = boot
  PROVE  PlanInv'
<1>1. /\ at' \in {"plan", "ask"} => job'.cmd = "import"
      /\ at' = "all" => job'.cmd = "clear"
      /\ at' = "resolve" => job'.cmd = "set"
      /\ at' = "plan" /\ first' # 0 => cat'.boot <= pages'
      /\ at' = "all" /\ holder' = "host" /\ first' # 0 => pages' = boot'
  BY DEF PlanInv
<1>2. cat'.boot = boot' => cat.boot = boot
  BY DEF TypesInv
<1>3. at' \in {"ask", "take"} /\ job'.cmd = "import" /\ cat'.boot = boot' =>
        Makes(Requests(plan'), cat'.decl, Key, found', FileMakes(cat'.decl, job'.file, found'))
  BY <1>2 DEF PlanInv
<1> QED BY <1>1, <1>3 DEF PlanInv

\* A step to where nothing is planned or read.
LEMMA PlanLeft ==
  ASSUME at' \notin {"plan", "ask", "take", "all", "resolve"}
  PROVE  PlanInv'
BY DEF PlanInv

\* A page of a plan's reading, and the plan.
LEMMA PlanRead ==
  ASSUME PlanInv, TypesInv, PagesInv, ReadPage
  PROVE  PlanInv'
<1> DEFINE rows == out \o Page(Rows(conf, decl))
           began == IF first = 0 THEN boot ELSE pages
<1>1. UNCHANGED <<decl, boot, conf, holder, job, cat>>
  BY DEF ReadPage, probeVars
<1>2. at \in Reading
  BY DEF ReadPage
<1>3. CASE Again /\ UNCHANGED <<at, plan, found>>
  BY <1>1, <1>2, <1>3 DEF Again, PlanInv, Reading
<1>4. CASE pages' = began /\ UNCHANGED <<at, plan, found>>
  <2>1. cat.boot <= boot
    BY DEF TypesInv
  <2> QED BY <1>1, <1>2, <1>4, <2>1 DEF PlanInv, Reading
<1>5. CASE at = "plan" /\ ~StartOver /\ Len(rows) >= Len(Rows(conf, decl)) /\ Planned(rows)
  <2>1. job.cmd = "import" /\ job' = job /\ at' \in {"ask", "take", "rest"}
    BY <1>1, <1>5 DEF Planned, Finish, PlanInv
  <2>2. ASSUME cat.boot = boot
        PROVE  Makes(Requests(plan'), cat.decl, Key, conf, FileMakes(cat.decl, job.file, conf))
    <3>1. first = 0 \/ pages = boot
      BY <1>5, <2>2 DEF PlanInv, PagesInv
    <3>2. rows = Rows(conf, decl)
      BY <1>5, <3>1, WholeRead
    <3>3. plan' = PlanImport(decl, Rows(conf, decl), job.file) /\ cat.decl = decl /\ decl \in Decls /\ conf \in Conf
          /\ FileOk(job.file)
      BY <1>5, <2>2, <3>2, FilesOk DEF Planned, TypesInv
    <3> QED BY <3>3, PlanMakes
  <2>3. found' = conf
    BY <1>5 DEF Planned
  <2> QED BY <1>1, <2>1, <2>2, <2>3 DEF PlanInv
<1>6. CASE (at = "all" /\ AllAway(rows)) \/ (at = "check" /\ Checked(gen))
  BY <1>6, PlanLeft DEF AllAway, Checked, Saving
<1> QED BY <1>3, <1>4, <1>5, <1>6 DEF ReadPage

\* PlanInv holds after every step.
LEMMA PlanStep == PlanInv /\ TypesInv /\ PagesInv /\ AgainInv /\ [Next]_vars => PlanInv'
<1> SUFFICES ASSUME PlanInv, TypesInv, PagesInv, AgainInv, [Next]_vars PROVE PlanInv'
  OBVIOUS
<1>1. CASE Begin
  <2>1. first' = 0 /\ job' = job
    BY <1>1 DEF Begin, AgainInv, Reading
  <2>2. CASE job.cmd = "import" /\ at' = "plan"
    BY <2>1, <2>2 DEF PlanInv
  <2>3. CASE job.cmd # "import" /\ at' = "take"
    BY <2>1, <2>3 DEF PlanInv
  <2> QED BY <1>1, <2>2, <2>3 DEF Begin
<1>2. CASE Answer
  <2>1. CASE at' = "take"
    <3>1. UNCHANGED <<boot, job, cat, plan, found>> /\ at = "ask"
      BY <1>2 DEF Answer, probeVars, pastVars
    <3> QED BY <2>1, <3>1 DEF PlanInv
  <2>2. CASE Finish("not applied")
    BY <2>2, PlanLeft DEF Finish
  <2> QED BY <1>2, <2>1, <2>2 DEF Answer
<1>3. CASE Take
  <2>1. UNCHANGED <<job, first>> /\ first = 0
    BY <1>3 DEF Take, AgainInv, Reading
  <2>2. CASE job.cmd = "set" /\ at' = "resolve"
    BY <2>1, <2>2 DEF PlanInv
  <2>3. CASE job.cmd = "clear" /\ at' = "all"
    BY <2>1, <2>3 DEF PlanInv
  <2>4. CASE at' \in {"rest", "send", "state", "end"}
    BY <2>4, PlanLeft
  <2> QED BY <1>3, <2>2, <2>3, <2>4 DEF Take, Finish, Saving
<1>4. CASE Resolve
  BY <1>4, PlanLeft DEF Resolve, Refused
<1>5. CASE Send
  BY <1>5, PlanLeft DEF Send, Refused, Saving
<1>6. CASE ReadState
  BY <1>6, PlanLeft DEF ReadState
<1>7. CASE Save
  BY <1>7, PlanLeft DEF Save, Refused
<1>8. CASE End
  BY <1>8, PlanLeft DEF End, Finish
<1>9. CASE Break
  BY <1>9, PlanLeft DEF Break, Finish
<1>10. CASE Lapse
  BY <1>10, PlanStays DEF Lapse, hostVars, pastVars
<1>11. CASE OtherTakes
  BY <1>11, PlanStays DEF OtherTakes, hostVars, pastVars
<1>12. CASE OtherChanges
  BY <1>12, PlanStays DEF OtherChanges, hostVars
<1>13. CASE OtherSaves
  BY <1>13, PlanStays DEF OtherSaves, hostVars, pastVars
<1>14. CASE Reboot
  BY <1>14, PlanStays DEF Reboot, hostVars
<1>15. CASE UNCHANGED vars
  BY <1>15, PlanStays DEF vars, probeVars, hostVars, pastVars
<1> QED BY <1>1, <1>2, <1>3, <1>4, <1>5, <1>6, <1>7, <1>8, <1>9, <1>10, <1>11, <1>12, <1>13, <1>14, <1>15,
           PlanRead DEF Next

\* A step to where the command does nothing, or has lost its lock.
LEMMA WorkLeft ==
  ASSUME at' \notin Working \/ holder' # "host" \/ result' = "refused"
  PROVE  WorkInv'
BY DEF WorkInv

\* A step of its work that changes nothing.
LEMMA WorkStays ==
  ASSUME WorkInv, at \in Working, at' = at \/ (at # "send" /\ at' # "send"),
         UNCHANGED <<decl, boot, conf, holder, job, cat, todo, result, taken, found>>
  PROVE  WorkInv'
<1>1. (Makes(todo, decl, Due, conf, Goal))' <=> Makes(todo, decl, Due, conf, Goal)
  BY DEF Makes, Due, Goal
<1>2. Speaks' <=> Speaks
  BY DEF Speaks
<1> QED BY <1>1, <1>2 DEF WorkInv

\* A request made.
LEMMA WorkSend ==
  ASSUME WorkInv, TypesInv, Send
  PROVE  WorkInv'
<1>1. CASE Refused
  BY <1>1, WorkLeft DEF Refused
<1>2. CASE /\ holder = "host" /\ Change(Head(todo).op, Head(todo).rows) /\ UNCHANGED result
           /\ todo' = Tail(todo) /\ at' = IF Len(todo) = 1 THEN Saving ELSE "send"
  <2> SUFFICES ASSUME result' # "refused", Speaks' PROVE (at' # "send" => todo' = <<>>) /\ (Makes(todo, decl, Due, conf, Goal))'
    BY Zenon DEF WorkInv
  <2>1. UNCHANGED <<decl, boot, job, cat, taken, found>> /\ at = "send"
    BY DEF Send, pastVars
  <2>2. Speaks /\ result # "refused"
    BY <1>2, <2>1 DEF Speaks
  <2>3. Makes(todo, decl, Due, conf, Goal)
    BY <1>2, <2>1, <2>2 DEF WorkInv, Working
  <2>4. todo \in Seq(Request) /\ todo # <<>> /\ FileOk(job.file)
    BY <2>1, FilesOk DEF TypesInv
  <2>5. Due \in SUBSET Key
    <3>1. \A k \in Names(job.file) : k \in Key
      BY <2>4, EntryIs DEF Names
    <3> QED BY <3>1 DEF Due
  <2>6. Makes(Tail(todo), decl, Due, After(Head(todo).op, Head(todo).rows), Goal)
    BY <2>3, <2>4, <2>5, SendMakes
  <2>7. Due' = Due /\ Goal' = Goal
    BY <2>1 DEF Due, Goal
  <2>8. conf' = After(Head(todo).op, Head(todo).rows)
    BY <1>2 DEF Change
  <2>9. (Makes(todo, decl, Due, conf, Goal))'
    BY <1>2, <2>1, <2>6, <2>7, <2>8
  <2>10. at' # "send" => todo' = <<>>
    <3>1. at' # "send" => Len(todo) = 1
      BY <1>2
    <3>2. ASSUME Len(todo) = 1 PROVE Tail(todo) = <<>>
      <4>1. PICK t \in Seq(Request) : t = Tail(todo) /\ Len(t) = Len(todo) - 1
        BY <2>4, HeadTailProperties, Zenon
      <4>2. Len(t) = 0
        BY <3>2, <4>1
      <4> QED BY <4>1, <4>2
    <3> QED BY <1>2, <3>1, <3>2
  <2> QED BY <2>9, <2>10
<1> QED BY <1>1, <1>2 DEF Send

\* The lock taken: an import's plan is still of the values, if nothing changed since it read them.
LEMMA WorkTake ==
  ASSUME PlanInv, TypesInv, Take
  PROVE  WorkInv'
<1>1. UNCHANGED <<decl, boot, conf, job, cat, plan, found>> /\ at = "take"
  BY DEF Take
<1>2. CASE at' \in {"rest", "resolve", "all"}
  BY <1>2, WorkLeft DEF Working
<1>3. CASE job.cmd = "keep"
  BY <1>1, <1>3 DEF WorkInv, Speaks
<1>4. CASE /\ job.cmd = "import" /\ todo' = Requests(plan) /\ taken' = conf
           /\ at' = IF plan = NoPlan THEN Saving ELSE "send"
  <2> SUFFICES ASSUME Speaks' PROVE (at' # "send" => todo' = <<>>) /\ (Makes(todo, decl, Due, conf, Goal))'
    BY Zenon DEF WorkInv
  <2>1. cat.boot = boot /\ conf = found /\ cat.decl = decl
    BY <1>1, <1>4 DEF Speaks, TypesInv
  <2>2. Makes(Requests(plan), cat.decl, Key, found, FileMakes(cat.decl, job.file, found))
    BY <1>1, <1>4, <2>1 DEF PlanInv
  <2>3. Due' = Key /\ Goal' = FileMakes(cat.decl, job.file, found)
    BY <1>1, <1>4, <2>1 DEF Due, Goal
  <2>4. (Makes(todo, decl, Due, conf, Goal))'
    BY <1>1, <1>4, <2>1, <2>2, <2>3
  <2>5. at' # "send" => plan = NoPlan
    BY <1>4
  <2>6. plan = NoPlan => Requests(plan) = <<>>
    BY PlanRequests DEF TypesInv
  <2> QED BY <1>4, <2>4, <2>5, <2>6
<1> QED BY <1>2, <1>3, <1>4 DEF Take, Finish

\* A file's entries, with the names of now.
LEMMA WorkResolve ==
  ASSUME PlanInv, TypesInv, Resolve
  PROVE  WorkInv'
<1>1. CASE Refused
  BY <1>1, WorkLeft DEF Refused
<1>2. CASE /\ \A i \in DOMAIN job.file : Declares(decl, job.file[i].item)
           /\ todo' = Batches("set", AsWire(decl, job.file)) /\ at' = "send"
  <2>1. UNCHANGED <<decl, conf, job>> /\ job.cmd = "set" /\ job.file # <<>> /\ FileOk(job.file) /\ decl \in Decls
    BY SettingsAssumption, FilesOk DEF Resolve, probeVars, PlanInv, TypesInv
  <2>2. Makes(Batches("set", AsWire(decl, job.file)), decl, Names(job.file), conf,
              [k \in Names(job.file) |-> Entry(job.file, k).v])
    BY <1>2, <2>1, SetMakes
  <2>3. Due' = Names(job.file) /\ Goal' = [k \in Names(job.file) |-> Entry(job.file, k).v]
    BY <2>1 DEF Due, Goal
  <2>4. (Makes(todo, decl, Due, conf, Goal))'
    BY <1>2, <2>1, <2>2, <2>3
  <2> QED BY <1>2, <2>4 DEF WorkInv
<1> QED BY <1>1, <1>2 DEF Resolve

\* A reading under the lock: of all that goes away, or of needs_save.
LEMMA WorkRead ==
  ASSUME WorkInv, PlanInv, TypesInv, PagesInv, ReadPage
  PROVE  WorkInv'
<1> DEFINE rows == out \o Page(Rows(conf, decl))
<1>1. UNCHANGED <<decl, boot, conf, holder, job, cat, taken>> /\ at \in Reading
  BY DEF ReadPage, probeVars
<1>2. CASE UNCHANGED <<at, todo, result, found>>
  <2>1. CASE at = "check"
    BY <1>1, <1>2, <2>1, WorkStays DEF Working
  <2>2. CASE at # "check"
    BY <1>1, <1>2, <2>2, WorkLeft DEF Working, Reading
  <2> QED BY <2>1, <2>2
<1>3. CASE Planned(rows)
  BY <1>3, WorkLeft DEF Planned, Finish, Working
<1>4. CASE at = "check" /\ Checked(gen)
  BY <1>1, <1>4, WorkStays DEF Checked, Working
<1>5. CASE at = "all" /\ ~StartOver /\ Len(rows) >= Len(Rows(conf, decl)) /\ AllAway(rows)
  <2> SUFFICES ASSUME holder = "host" PROVE (at' # "send" => todo' = <<>>) /\ (Makes(todo, decl, Due, conf, Goal))'
    BY <1>1, Zenon DEF WorkInv
  <2>1. first = 0 \/ pages = boot
    BY <1>5 DEF PlanInv
  <2>2. rows = Rows(conf, decl)
    BY <1>5, <2>1, WholeRead
  <2>3. conf \in Conf /\ decl \in Decls /\ Declared(conf, decl) /\ job.cmd = "clear"
    BY <1>5 DEF TypesInv, PlanInv
  <2>4. Makes(Batches("unset", Rows(conf, decl)), decl, Key, conf, Empty)
    BY <2>3, AwayMakes
  <2>5. todo' = Batches("unset", rows) /\ (at' # "send" => rows = <<>>)
    BY <1>5 DEF AllAway
  <2>6. rows = <<>> => Batches("unset", rows) = <<>>
    <3>1. rows \in Seq(WireRow)
      BY <2>3, PageIs DEF TypesInv
    <3> HIDE DEF rows
    <3> QED BY <3>1, BatchesAre
  <2>7. Due' = Key /\ Goal' = Empty
    BY <1>1, <2>3 DEF Due, Goal
  <2>8. (Makes(todo, decl, Due, conf, Goal))'
    BY <1>1, <2>2, <2>4, <2>5, <2>7
  <2> QED BY <2>5, <2>6, <2>8
<1> QED BY <1>2, <1>3, <1>4, <1>5 DEF ReadPage

\* WorkInv holds after every step.
LEMMA WorkStep == WorkInv /\ PlanInv /\ TypesInv /\ PagesInv /\ [Next]_vars => WorkInv'
<1> SUFFICES ASSUME WorkInv, PlanInv, TypesInv, PagesInv, [Next]_vars PROVE WorkInv'
  OBVIOUS
<1>1. CASE Begin
  BY <1>1, WorkLeft DEF Begin, Working
<1>2. CASE Answer
  BY <1>2, WorkLeft DEF Answer, Finish, Working
<1>3. CASE ReadState
  BY <1>3, WorkStays DEF ReadState, Working, probeVars, pastVars
<1>4. CASE Save
  <2>1. CASE Refused
    BY <2>1, WorkLeft DEF Refused
  <2>2. CASE at' = "end" /\ UNCHANGED result
    BY <1>4, <2>2, WorkStays DEF Save, Working, pastVars
  <2> QED BY <1>4, <2>1, <2>2 DEF Save
<1>5. CASE End
  BY <1>5, WorkLeft DEF End, Finish, Working
<1>6. CASE Break
  BY <1>6, WorkLeft DEF Break, Finish, Working
<1>7. CASE Lapse
  BY <1>7, WorkLeft DEF Lapse
<1>8. CASE OtherTakes
  BY <1>8, WorkLeft DEF OtherTakes
<1>9. CASE OtherChanges
  BY <1>9, WorkLeft DEF OtherChanges
<1>10. CASE OtherSaves
  BY <1>10, WorkLeft DEF OtherSaves
<1>11. CASE Reboot
  BY <1>11, WorkLeft DEF Reboot
<1>12. CASE UNCHANGED vars
  <2>1. CASE at \in Working
    BY <1>12, <2>1, WorkStays DEF vars, probeVars, hostVars, pastVars
  <2>2. CASE at \notin Working
    BY <1>12, <2>2, WorkLeft DEF vars, hostVars
  <2> QED BY <2>1, <2>2
<1> QED BY <1>1, <1>2, <1>3, <1>4, <1>5, <1>6, <1>7, <1>8, <1>9, <1>10, <1>11, <1>12,
           WorkRead, WorkTake, WorkResolve, WorkSend DEF Next

\* Nothing left to do makes it done.
LEMMA WorkDone ==
  ASSUME WorkInv, TypesInv, at = "end", holder = "host", result # "refused", Speaks
  PROVE  /\ job.cmd = "import" => conf = FileMakes(cat.decl, job.file, found)
         /\ job.cmd = "set" => \A k \in Names(job.file) : conf[k] = Entry(job.file, k).v
         /\ job.cmd = "clear" => conf = Empty
<1>1. \A k \in Due : conf[k] = Goal[k]
  BY NothingToDo DEF WorkInv, Working
<1>2. conf = [k \in Key |-> conf[k]]
  BY DEF TypesInv, Conf
<1>3. CASE job.cmd = "import"
  <2>1. Due = Key /\ Goal = FileMakes(cat.decl, job.file, found)
    BY <1>3 DEF Due, Goal, Speaks
  <2>2. FileMakes(cat.decl, job.file, found) = [k \in Key |-> FileMakes(cat.decl, job.file, found)[k]]
    BY DEF FileMakes
  <2> QED BY <1>1, <1>2, <1>3, <2>1, <2>2
<1>4. CASE job.cmd = "set"
  <2>1. Due = Names(job.file) /\ Goal = [k \in Names(job.file) |-> Entry(job.file, k).v]
    BY <1>4 DEF Due, Goal
  <2> QED BY <1>1, <1>4, <2>1
<1>5. CASE job.cmd = "clear"
  <2>1. Due = Key /\ Goal = Empty
    BY <1>5 DEF Due, Goal
  <2> QED BY <1>1, <1>2, <1>5, <2>1 DEF Empty
<1> QED BY <1>3, <1>4, <1>5

\* An import with nothing to change ends at its reading: the values are the file's.
LEMMA PlanDone ==
  ASSUME PlanInv, TypesInv, PagesInv, ReadPage, at' = "rest", cat.boot = boot
  PROVE  conf = FileMakes(cat.decl, job.file, found')
<1> DEFINE rows == out \o Page(Rows(conf, decl))
           p == PlanImport(cat.decl, rows, job.file)
           G == FileMakes(cat.decl, job.file, conf)
<1>1. at = "plan" /\ ~StartOver /\ Len(rows) >= Len(Rows(conf, decl)) /\ Planned(rows)
  BY DEF ReadPage, Reading, AllAway, Checked, Saving
<1>2. p = NoPlan /\ found' = conf
  BY <1>1 DEF Planned
<1>3. first = 0 \/ pages = boot
  BY <1>1 DEF PlanInv, PagesInv
<1>4. rows = Rows(conf, decl)
  BY <1>1, <1>3, WholeRead
<1>5. conf \in Conf /\ decl \in Decls /\ cat.decl = decl /\ FileOk(job.file)
  BY FilesOk DEF TypesInv
<1>6. Requests(p) = <<>> /\ Makes(Requests(p), decl, Key, conf, G)
  BY <1>2, <1>4, <1>5, PlanMakes
<1>7. \A k \in Key : conf[k] = G[k]
  BY <1>6, NothingToDo
<1>8. conf = [k \in Key |-> conf[k]] /\ G = [k \in Key |-> G[k]]
  BY <1>5 DEF Conf, FileMakes
<1> HIDE DEF G
<1>9. conf = G
  BY <1>7, <1>8
<1> QED BY <1>2, <1>9 DEF G

\* A command ends well at its end, with its lock, or at an import's reading.
LEMMA DoneStep ==
  ASSUME DoneInv, PagesInv, [Next]_vars, Done
  PROVE  /\ (job.cmd = "import" /\ cat.boot = boot /\ (holder = "host" => taken = found'))
              => conf = FileMakes(cat.decl, job.file, found')
         /\ job.cmd = "set" => \A k \in Names(job.file) : conf[k] = Entry(job.file, k).v
         /\ job.cmd = "clear" => conf = Empty
<1>0. at # "rest" /\ at' = "rest" /\ result' = "ok" /\ WorkInv /\ PlanInv /\ TypesInv
  BY DEF Done, DoneInv
<1>1. CASE End
  <2>1. at = "end" /\ holder = "host" /\ result # "refused" /\ found' = found
    BY <1>0, <1>1 DEF End, Finish, pastVars
  <2>2. CASE Speaks
    BY <1>0, <2>1, <2>2, WorkDone
  <2>3. CASE ~Speaks
    BY <2>1, <2>3 DEF Speaks
  <2> QED BY <2>2, <2>3
<1>2. CASE ReadPage
  <2>1. at = "plan"
    BY <1>0, <1>2 DEF ReadPage, Reading, AllAway, Checked, Saving
  <2>2. job.cmd = "import"
    BY <1>0, <2>1 DEF PlanInv
  <2>3. cat.boot = boot => conf = FileMakes(cat.decl, job.file, found')
    BY <1>0, <1>2, PlanDone
  <2> QED BY <2>2, <2>3
<1>3. ~(Begin \/ Answer \/ Take \/ Resolve \/ Send \/ ReadState \/ Save \/ Break)
  BY <1>0 DEF Begin, Answer, Take, Resolve, Send, ReadState, Save, Break, Finish, Refused, Saving
<1>4. ~(Lapse \/ OtherTakes \/ OtherChanges \/ OtherSaves \/ Reboot)
  BY <1>0 DEF Lapse, OtherTakes, OtherChanges, OtherSaves, Reboot, hostVars
<1>5. ~UNCHANGED vars
  BY <1>0 DEF vars, hostVars
<1> QED BY <1>1, <1>2, <1>3, <1>4, <1>5 DEF Next

\* A command that ended well did what it says: an import made the file's values of those it found,
\* when nobody changed them before its lock and the probe did not restart; a set and an unset --all
\* did so whatever happened before their lock.
THEOREM WhatIsDone == Spec => DoneIsDone
<1>1. Init => DoneInv /\ PagesInv /\ AgainInv
  <2>1. Init => WorkInv
    BY DEF Init, WorkInv, Working
  <2>2. Init => AgainInv
    BY DEF Init, AgainInv, StartsOverForChange, StartOver
  <2> QED BY <2>1, <2>2, TypesInit, PlanInit, PagesInit DEF DoneInv
<1>2. DoneInv /\ PagesInv /\ AgainInv /\ [Next]_vars => (DoneInv /\ PagesInv /\ AgainInv)'
  BY TypesStep, PlanStep, WorkStep, PagesStep, AgainStep DEF DoneInv
<1>3. DoneInv /\ PagesInv /\ [Next]_vars =>
        [Done =>
           /\ (job.cmd = "import" /\ cat.boot = boot /\ (holder = "host" => taken = found'))
                => conf = FileMakes(cat.decl, job.file, found')
           /\ job.cmd = "set" => \A k \in Names(job.file) : conf[k] = Entry(job.file, k).v
           /\ job.cmd = "clear" => conf = Empty]_vars
  BY DoneStep
<1> QED BY <1>1, <1>2, <1>3, PTL DEF Spec, DoneIsDone
===============================================================================
