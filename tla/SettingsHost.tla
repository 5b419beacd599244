----------------------------- MODULE SettingsHost -----------------------------
(***************************************************************************)
(* One settings command of a host (settings.py, the oep settings commands  *)
(* of __main__.py) and the probe that keeps the values (endpoint.py).      *)
(*                                                                         *)
(* The host reads the values in pages without a lock, plans an import from *)
(* them, asks its user, takes the lock, unsets and sets in requests that   *)
(* each fit a frame, and saves what is not saved yet.  Between any two of  *)
(* its requests another session changes or saves values, the lock lapses   *)
(* or is taken by force, and the probe restarts, perhaps with a firmware   *)
(* that declares other items under other numbers.                          *)
(***************************************************************************)
EXTENDS Integers, Sequences, FiniteSets

CONSTANTS
  Item,        \* the items, by name
  Secrets,     \* those whose values are never read
  Chans,       \* an item has a value per channel: channels 1..Chans
  Accepts,     \* Item -> the values its form and its choices take
  Decls,       \* the firmwares: the items each declares, in the order of their numbers
  Initial,     \* the values of a boot without a save
  Starts,      \* the values the store keeps when the behaviour begins
  Commands,    \* what the host may be told: [cmd, file, save]
  PerPage,     \* values a page of get holds
  PerRequest,  \* values a set or unset holds
  StoreMax,    \* values the save holds
  GenMax,      \* the last generation of a boot (0xFFFFFFFF in the code)
  OtherRows,   \* the requests another session makes: [op, n, ch, v]
  Loads        \* bounds: [others, forces, boots, faults], what a behaviour has of each

Key == Item \X (1..Chans)
NoValue == -1
Hidden == -2          \* what get shows of a secret
Value == UNION {Accepts[i] : i \in Item}
Conf == [Key -> Value \cup {NoValue}]
FirstSave == [is : {"kept", "none", "unreadable"}, conf : Conf]

ASSUME SettingsAssumption ==
  /\ Chans \in Nat /\ PerPage \in Nat \ {0} /\ PerRequest \in Nat \ {0}
  /\ StoreMax \in Nat /\ GenMax \in Nat \ {0}
  /\ Accepts \in [Item -> SUBSET Nat]
  /\ Decls \subseteq Seq(Item) /\ \A d \in Decls : \A i, j \in DOMAIN d : d[i] = d[j] => i = j
  /\ Commands \subseteq
       [cmd : {"import", "set", "clear", "keep"}, save : BOOLEAN,
        file : Seq([item : Item, ch : 1..Chans, v : Nat \cup {NoValue}])]
  /\ \A c \in Commands : c.cmd = "set" => c.file # <<>>
  /\ \A c \in Commands : \A i, j \in DOMAIN c.file :
       c.file[i].item = c.file[j].item /\ c.file[i].ch = c.file[j].ch => i = j
  /\ OtherRows \subseteq [op : {"set", "unset"}, n : Nat, ch : 1..Chans, v : Int]
  /\ Initial \in Conf /\ Starts \subseteq FirstSave
  /\ Loads \subseteq [others : Nat, forces : Nat, boots : Nat, faults : Nat]

VARIABLES
  decl,      \* the items this firmware declares
  boot,      \* counts the boots
  conf, gen, \* the values now; their generation: the changes of this boot, from 1
  saved,     \* the store: [is, conf]
  storage,   \* what state tells of it: [is, gen]
  holder,    \* who holds the lock: "host", "other", "none"
  job,       \* the host's command: [cmd, file, save]
  at,        \* where it is in it
  cat,       \* the items it knows, and the boot they were read in: [decl, boot]
  first,     \* get: the generation of the first page, 0 before it
  out,       \* get: the values so far
  plan,      \* what it means to change: [unsets, sets]
  todo,      \* the requests left of that
  told,      \* state's answer, read before get in needs_save
  result,    \* how the command ended: "none", "ok", "refused", "not applied", "broken"
  pages,     \* history: get's first page came in this boot
  read,      \* history: of the read that ended last [rows, whole, conf, decl]
  found,     \* history: the values an import's reading found
  taken,     \* history: the values when the lock was taken
  again,     \* history: how often this read started over
  moves,     \* history: changes of the values since its first page, restarts among them
  left       \* what is left of the bounds

probeVars == <<decl, boot, conf, gen, saved, storage, holder>>
hostVars == <<job, at, cat, first, out, plan, todo, told, result>>
pastVars == <<pages, read, found, taken, again, moves>>
vars == <<probeVars, hostVars, pastVars, left>>

---------------------------------------------------------------------------
(* The values. *)

Empty == [k \in Key |-> NoValue]
Has(c) == {k \in Key : c[k] # NoValue}

\* The order of get: by number, then by channel.
Place(p) == [n |-> ((p - 1) \div Chans) + 1, ch |-> ((p - 1) % Chans) + 1]
Places(c, d) == {p \in 1..(Len(d) * Chans) : c[<<d[Place(p).n], Place(p).ch>>] # NoValue}
Nth(ps, i) == CHOOSE p \in ps : Cardinality({q \in ps : q <= p}) = i

\* A value as get shows it.
Row(c, d, p) ==
  LET where == Place(p)
      item == d[where.n]
  IN [n |-> where.n, ch |-> where.ch,
      v |-> IF item \in Secrets THEN Hidden ELSE c[<<item, where.ch>>]]
Rows(c, d) == LET ps == Places(c, d) IN [i \in 1..Cardinality(ps) |-> Row(c, d, Nth(ps, i))]

Disabled(c, ch) == <<"disable", ch>> \in Key /\ c[<<"disable", ch>>] = 1
Labels == {k \in Key : k[1] = "label"}

\* Labels are unique, and no channel is disabled and has an idle state.
Legal(c) ==
  /\ \A k, l \in Labels \cap Has(c) : k # l => c[k] # c[l]
  /\ \A ch \in 1..Chans : Disabled(c, ch) => <<"idle", ch>> \notin Has(c)

---------------------------------------------------------------------------
(* The probe. *)

\* What a firmware takes of saved or initial values: those of the items it declares.
Declares(d, item) == \E n \in DOMAIN d : d[n] = item
TakenBy(d, c) == [k \in Key |-> IF Declares(d, k[1]) THEN c[k] ELSE NoValue]

BootConf(s, d) == TakenBy(d, IF s.is = "kept" THEN s.conf ELSE Initial)
BootStorage(s, d) ==
  CASE s.is # "kept" -> [is |-> s.is, gen |-> 0]
    [] s.is = "kept" /\ TakenBy(d, s.conf) = s.conf -> [is |-> "kept", gen |-> 1]
    [] OTHER -> [is |-> "partial", gen |-> 0]

Known(row) == row.n \in DOMAIN decl
KeyOf(row) == <<decl[row.n], row.ch>>

\* The values after a request.
After(op, rows) ==
  [k \in Key |->
    LET mine == {i \in DOMAIN rows : KeyOf(rows[i]) = k}
    IN CASE mine = {} -> conf[k]
         [] op = "unset" /\ mine # {} -> NoValue
         [] OTHER -> rows[CHOOSE i \in mine : TRUE].v]

\* Every value of the request is one the probe can take, and so is what they make together.
Takes(op, rows) ==
  /\ \A i \in DOMAIN rows :
       Known(rows[i]) /\ (op = "set" => rows[i].v \in Accepts[decl[rows[i].n]])
  /\ LET new == After(op, rows) IN new # conf => gen < GenMax /\ Legal(new)

\* The same values: the generation stays.
Change(op, rows) ==
  LET new == After(op, rows)
  IN conf' = new /\ gen' = IF new = conf THEN gen ELSE gen + 1

Fits == Cardinality(Has(conf)) <= StoreMax

\* A save completes, or fails and leaves the save before, none, or an unreadable store.
Store(how) ==
  CASE how = "saved" -> saved' = [is |-> "kept", conf |-> conf] /\ storage' = [is |-> "kept", gen |-> gen]
    [] how = "old" -> UNCHANGED <<saved, storage>>
    [] OTHER -> saved' = [is |-> how, conf |-> Initial] /\ storage' = [is |-> how, gen |-> 0]

\* A failed save is a fault.
Fails(how) == IF how = "saved" THEN UNCHANGED left ELSE left.faults > 0 /\ left' = [left EXCEPT !.faults = @ - 1]

---------------------------------------------------------------------------
(* The names: a file against the items of a probe. *)

NumberOf(d, item) == CHOOSE n \in DOMAIN d : d[n] = item
WireOf(d, e) == [n |-> NumberOf(d, e.item), ch |-> e.ch, v |-> e.v]
FileKey(e) == <<e.item, e.ch>>
Entry(f, k) == f[CHOOSE i \in DOMAIN f : FileKey(f[i]) = k]
Names(f) == {FileKey(f[i]) : i \in DOMAIN f}

Shown(rows, d, e) == {i \in DOMAIN rows : rows[i].n = NumberOf(d, e.item) /\ rows[i].ch = e.ch}

\* A list comprehension: the places of a sequence that are in I, in their order.
Those(s, I) ==
  LET some[k \in 0..Len(s)] ==
        IF k = 0 THEN <<>> ELSE IF k \in I THEN Append(some[k - 1], s[k]) ELSE some[k - 1]
  IN some[Len(s)]

\* plan_import: a value the probe does not have as the file says it; of a secret, one the probe
\* has no value for and the user gives.
Wanted(d, rows, e) ==
  /\ Declares(d, e.item) /\ e.item \notin Secrets /\ e.v \in Accepts[e.item]
  /\ \A i \in Shown(rows, d, e) : rows[i].v # e.v
Supplied(d, rows, e) ==
  /\ Declares(d, e.item) /\ e.item \in Secrets /\ e.v # NoValue
  /\ Shown(rows, d, e) = {}
Unwanted(d, f, row) == row.n \notin DOMAIN d \/ <<d[row.n], row.ch>> \notin Names(f)

AsWire(d, f) == [i \in DOMAIN f |-> WireOf(d, f[i])]

PlanImport(d, rows, f) ==
  [unsets |-> Those(rows, {i \in DOMAIN rows : Unwanted(d, f, rows[i])}),
   sets |-> AsWire(d, Those(f, {i \in DOMAIN f : Wanted(d, rows, f[i])}))
            \o AsWire(d, Those(f, {i \in DOMAIN f : Supplied(d, rows, f[i])}))]

NoPlan == [unsets |-> <<>>, sets |-> <<>>]

\* _batches: requests that each fit a frame.
Batches(op, rows) ==
  [b \in 1..((Len(rows) + PerRequest - 1) \div PerRequest) |->
    [op |-> op, rows |-> SubSeq(rows, (b - 1) * PerRequest + 1,
                                IF b * PerRequest < Len(rows) THEN b * PerRequest ELSE Len(rows))]]

\* apply_import: unset first, then set.
Requests(p) == Batches("unset", p.unsets) \o Batches("set", p.sets)

---------------------------------------------------------------------------
(* The host. *)

Init ==
  /\ decl \in Decls /\ boot = 1
  /\ saved \in Starts
  /\ conf = BootConf(saved, decl) /\ gen = 1 /\ storage = BootStorage(saved, decl)
  /\ holder = "none"
  /\ job \in Commands /\ at = "idle"
  /\ cat = [decl |-> <<>>, boot |-> 0]
  /\ first = 0 /\ out = <<>> /\ plan = NoPlan /\ todo = <<>>
  /\ told = [is |-> "none", gen |-> 0] /\ result = "none"
  /\ pages = 0 /\ found = Empty /\ taken = Empty /\ again = 0 /\ moves = 0
  /\ read = [rows |-> <<>>, whole |-> FALSE, conf |-> Empty, decl |-> <<>>]
  /\ left \in Loads

\* Where the command goes after its changes.
Saving == IF job.save THEN "state" ELSE "end"

Finish(how) == at' = "rest" /\ result' = how

\* An import reads the names before anything; the other commands when they hold the lock.
Begin ==
  /\ at = "idle"
  /\ \/ job.cmd = "import" /\ at' = "plan" /\ cat' = [decl |-> decl, boot |-> boot]
     \/ job.cmd # "import" /\ at' = "take" /\ UNCHANGED cat
  /\ UNCHANGED <<probeVars, job, first, out, plan, todo, told, result, pastVars, left>>

Reading == {"plan", "all", "check"}

\* A read that ended with these rows, in a command that is planning an import.
Planned(rows) ==
  LET p == PlanImport(cat.decl, rows, job.file)
  IN /\ plan' = p /\ found' = conf
     /\ \/ p = NoPlan /\ ~job.save /\ Finish("ok")
        \/ p = NoPlan /\ job.save /\ at' = "take" /\ UNCHANGED result
        \/ p # NoPlan /\ at' = "ask" /\ UNCHANGED result
     /\ UNCHANGED todo

\* unset_all: every value away.
AllAway(rows) ==
  /\ todo' = Batches("unset", rows)
  /\ at' = IF rows = <<>> THEN Saving ELSE "send"
  /\ UNCHANGED <<plan, result, found>>

\* Mutant: what is saved is taken for what is now.
CheckedState(g) ==
  /\ at' = IF told.is = "kept" THEN "end" ELSE "save"
  /\ UNCHANGED <<plan, todo, result, found>>

\* needs_save: not when the saved generation is the one now.
Checked(g) ==
  /\ at' = IF told.is = "kept" /\ told.gen = g THEN "end" ELSE "save"
  /\ UNCHANGED <<plan, todo, result, found>>

\* Mutant: pages of any generation are put together.
StartOverNever == FALSE

\* The page is of another generation than the first.
StartOver == first \notin {0, gen}

\* Mutant: a read that starts over keeps the generation of the first one's first page.
AgainAsFirst == out' = <<>> /\ again' = again + 1 /\ UNCHANGED <<first, pages, moves>>

Again == out' = <<>> /\ first' = 0 /\ again' = again + 1 /\ UNCHANGED <<pages, moves>>

\* What a page holds of the values from where the pages so far end.
Page(rows) == SubSeq(rows, Len(out) + 1, IF Len(out) + PerPage < Len(rows) THEN Len(out) + PerPage ELSE Len(rows))

\* get, one page: kept with the pages before it, or the read starts over.
ReadPage ==
  /\ at \in Reading
  /\ LET now == Rows(conf, decl)
         rows == out \o Page(now)
         began == IF first = 0 THEN boot ELSE pages
     IN \/ /\ StartOver
           /\ Again
           /\ UNCHANGED <<at, plan, todo, result, read, found>>
        \/ /\ ~StartOver /\ Len(rows) < Len(now)
           /\ out' = rows /\ first' = gen /\ pages' = began
           /\ UNCHANGED <<at, plan, todo, result, read, found, again, moves>>
        \/ /\ ~StartOver /\ Len(rows) >= Len(now)
           /\ out' = <<>> /\ first' = 0 /\ pages' = began /\ again' = 0 /\ moves' = 0
           /\ read' = [rows |-> rows, whole |-> began = boot, conf |-> conf, decl |-> decl]
           /\ \/ at = "plan" /\ Planned(rows)
              \/ at = "all" /\ AllAway(rows)
              \/ at = "check" /\ Checked(gen)
  /\ UNCHANGED <<probeVars, job, cat, told, taken, left>>

\* The user agrees, or not.
Answer ==
  /\ at = "ask"
  /\ \/ at' = "take" /\ UNCHANGED result
     \/ Finish("not applied")
  /\ UNCHANGED <<probeVars, job, cat, first, out, plan, todo, told, pastVars, left>>

\* take: the lock, when no other session keeps it.
Take ==
  /\ at = "take"
  /\ \/ /\ holder = "other" /\ Finish("refused") /\ UNCHANGED <<holder, todo, taken>>
     \/ /\ holder = "none" /\ holder' = "host" /\ taken' = conf
        /\ UNCHANGED result
        /\ \/ job.cmd = "import" /\ todo' = Requests(plan)
              /\ at' = IF plan = NoPlan THEN Saving ELSE "send"
           \/ job.cmd = "set" /\ at' = "resolve" /\ UNCHANGED todo
           \/ job.cmd = "clear" /\ at' = "all" /\ UNCHANGED todo
           \/ job.cmd = "keep" /\ at' = Saving /\ UNCHANGED todo
  /\ UNCHANGED <<decl, boot, conf, gen, saved, storage, job, cat, first, out, plan, told, pages, read, found, again, moves, left>>

\* A command that was refused still ends its session.
Refused == at' = "end" /\ result' = "refused"

\* set_named: the names of now, all of them on this probe.
Resolve ==
  /\ at = "resolve"
  /\ cat' = [decl |-> decl, boot |-> boot]
  /\ LET good == \A i \in DOMAIN job.file :
                   Declares(decl, job.file[i].item) /\ job.file[i].v \in Accepts[job.file[i].item]
     IN \/ good /\ todo' = Batches("set", AsWire(decl, job.file)) /\ at' = "send" /\ UNCHANGED result
        \/ ~good /\ Refused /\ UNCHANGED todo
  /\ UNCHANGED <<probeVars, job, first, out, plan, told, pastVars, left>>

\* One set or unset: whole or not at all.
Send ==
  /\ at = "send"
  /\ LET r == Head(todo)
     IN \/ /\ holder = "host" /\ Takes(r.op, r.rows)
           /\ Change(r.op, r.rows)
           /\ todo' = Tail(todo)
           /\ at' = IF Len(todo) = 1 THEN Saving ELSE "send"
           /\ UNCHANGED result
        \/ /\ holder # "host" \/ ~Takes(r.op, r.rows)
           /\ Refused /\ todo' = <<>>
           /\ UNCHANGED <<conf, gen>>
  /\ UNCHANGED <<decl, boot, saved, storage, holder, job, cat, first, out, plan, told, pastVars, left>>

ReadState ==
  /\ at = "state"
  /\ told' = storage /\ at' = "check"
  /\ UNCHANGED <<probeVars, job, cat, first, out, plan, todo, result, pastVars, left>>

Save ==
  /\ at = "save"
  /\ \/ /\ holder = "host" /\ Fits
        /\ \E how \in {"saved", "old", "none", "unreadable"} :
             /\ Store(how) /\ Fails(how)
             /\ IF how = "saved" THEN at' = "end" /\ UNCHANGED result ELSE Refused
     \/ /\ holder # "host" \/ ~Fits
        /\ Refused /\ UNCHANGED <<saved, storage, left>>
  /\ UNCHANGED <<decl, boot, conf, gen, holder, job, cat, first, out, plan, todo, told, pastVars>>

\* Mutant: an end that is refused is no matter.
EndUnchecked ==
  /\ at = "end"
  /\ \/ holder = "host" /\ holder' = "none"
     \/ holder # "host" /\ UNCHANGED holder
  /\ Finish(IF result = "refused" THEN "refused" ELSE "ok")
  /\ UNCHANGED <<decl, boot, conf, gen, saved, storage, job, cat, first, out, plan, todo, told, pastVars, left>>

\* end, whatever happened: refused when the session is gone, and the command with it.
End ==
  /\ at = "end"
  /\ \/ /\ holder = "host" /\ holder' = "none"
        /\ Finish(IF result = "refused" THEN "refused" ELSE "ok")
     \/ /\ holder # "host" /\ UNCHANGED holder
        /\ Finish("refused")
  /\ UNCHANGED <<decl, boot, conf, gen, saved, storage, job, cat, first, out, plan, todo, told, pastVars, left>>

\* A request goes unanswered, or the process is stopped: the lock stays until it lapses.
Break ==
  /\ at \notin {"idle", "rest"} /\ left.faults > 0
  /\ Finish("broken")
  /\ left' = [left EXCEPT !.faults = @ - 1]
  /\ UNCHANGED <<probeVars, job, cat, first, out, plan, todo, told, pastVars>>

---------------------------------------------------------------------------
(* What else happens to the probe. *)

\* The lease runs out.
Lapse ==
  /\ holder # "none" /\ holder' = "none"
  /\ UNCHANGED <<decl, boot, conf, gen, saved, storage, hostVars, pastVars, left>>

\* Another session takes the free lock, or takes it by force.
OtherTakes ==
  /\ left.forces > 0 /\ left' = [left EXCEPT !.forces = @ - 1]
  /\ holder # "other" /\ holder' = "other"
  /\ UNCHANGED <<decl, boot, conf, gen, saved, storage, hostVars, pastVars>>

\* The values moved under a read that has its first page.
Moves == moves' = IF first # 0 /\ (gen' # gen \/ boot' # boot) THEN moves + 1 ELSE moves

OtherChanges ==
  /\ holder = "other" /\ left.others > 0 /\ left' = [left EXCEPT !.others = @ - 1]
  /\ \E r \in OtherRows : LET rows == <<[n |-> r.n, ch |-> r.ch, v |-> r.v]>>
                          IN Takes(r.op, rows) /\ Change(r.op, rows)
  /\ UNCHANGED <<decl, boot, saved, storage, holder, hostVars, pages, read, found, taken, again>>
  /\ Moves

OtherSaves ==
  /\ holder = "other" /\ Fits
  /\ \E how \in {"saved", "old", "none", "unreadable"} : Store(how) /\ Fails(how)
  /\ UNCHANGED <<decl, boot, conf, gen, holder, hostVars, pastVars>>

\* The probe restarts, perhaps with another firmware: the save is applied, every value by itself.
Reboot ==
  /\ left.boots > 0 /\ left' = [left EXCEPT !.boots = @ - 1]
  /\ boot' = boot + 1 /\ gen' = 1 /\ holder' = "none"
  /\ decl' \in Decls
  /\ conf' = BootConf(saved, decl') /\ storage' = BootStorage(saved, decl')
  /\ UNCHANGED <<saved, hostVars, pages, read, found, taken, again>>
  /\ Moves

Next ==
  \/ Begin \/ ReadPage \/ Answer \/ Take \/ Resolve \/ Send \/ ReadState \/ Save \/ End \/ Break
  \/ Lapse \/ OtherTakes \/ OtherChanges \/ OtherSaves \/ Reboot

Spec == Init /\ [][Next]_vars

---------------------------------------------------------------------------
(* Properties. *)

\* The values get returns are the probe's at one moment, the last page's, whoever changed them
\* while it read ("the generation changes between pages the settings moved: the read starts
\* over", settings.py get) - as long as the probe did not restart in between: generations start
\* again from 1 then.
ReadIsOneMoment == read.whole => read.rows = Rows(read.conf, read.decl)

Done == at # "rest" /\ at' = "rest" /\ result' = "ok"

\* What the file makes of the values an import found.
FileMakes(d, f, base) ==
  [k \in Key |->
    CASE ~Declares(d, k[1]) -> base[k]
      [] Declares(d, k[1]) /\ k \notin Names(f) -> NoValue
      [] Declares(d, k[1]) /\ k \in Names(f) /\ k[1] \in Secrets ->
           IF base[k] # NoValue THEN base[k] ELSE Entry(f, k).v
      [] OTHER -> IF Entry(f, k).v \in Accepts[k[1]] THEN Entry(f, k).v ELSE base[k]]

\* A command that ended well did what it says: an import made the values the file's when nobody
\* changed them between its reading and its lock and the probe did not restart between; a set
\* and an unset --all did so whatever happened before they took the lock.
DoneIsDone ==
  [][Done =>
       /\ (job.cmd = "import" /\ cat.boot = boot /\ (holder = "host" => taken = found'))
            => conf = FileMakes(cat.decl, job.file, found')
       /\ job.cmd = "set" => \A k \in Names(job.file) : conf[k] = Entry(job.file, k).v
       /\ job.cmd = "clear" => conf = Empty]_vars

\* A command told to save that ended well left the values now in the store: a restart brings
\* them back, also where it found them saved already.
SavedAsTold == [][(Done /\ job.save) => saved = [is |-> "kept", conf |-> conf]]_vars

\* A read starts over at most once for each change of the values since its first page: it ends
\* when the others leave them alone.
StartsOverForChange == again + (IF StartOver THEN 1 ELSE 0) <= moves

(* Not so.                                                                  *)

\* The same of a read the probe restarted under: a page of one boot and one of the next may have
\* the same generation.
ReadsAcrossBoots == read.rows = Rows(read.conf, read.decl)

\* An import names its values by the numbers of the boot its plan was made in, and sends them to
\* the boot its lock is in: "a value is (fn, item number, key) on the wire for one boot".
ImportKeepsNames ==
  [][(Done /\ job.cmd = "import" /\ job.file # <<>>) =>
       \A k \in Key : conf[k] \in {taken[k], FileMakes(cat.decl, job.file, found)[k]}]_vars

\* Values that make a legal whole are taken: the requests an import is split into are refused
\* one by one.
ImportIsTaken ==
  [][(at = "send" /\ job.cmd = "import" /\ at' = "end" /\ result' = "refused" /\ holder = "host"
      /\ taken = found /\ cat.boot = boot /\ gen < GenMax)
       => ~Legal(FileMakes(cat.decl, job.file, found))]_vars
=============================================================================
