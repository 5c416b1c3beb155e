----------------------------- MODULE Migrations -----------------------------
(***************************************************************************)
(* Opening a SQLite store: migrations are looked up in a table of their    *)
(* own, run statement by statement (each is its own transaction) and then  *)
(* recorded.  Processes that open one database do so at any time, and may  *)
(* end at any time.                                                        *)
(*                                                                         *)
(* A schema is the columns of each table and the tables of each index.     *)
(***************************************************************************)
EXTENDS Naturals, Sequences, SequencesExt

CONSTANTS
  Openers,     (* processes that open the store                            *)
  MaxOpens     (* bound: times it is opened                                *)

VARIABLES
  schema,      (* of the database                                          *)
  recorded,    (* names in _migrations                                     *)
  opener,      (* where each process is                                    *)
  opens,
  torn         (* history: a migration was cut short, or run by two        *)

migrationVars == <<schema, recorded, opener, opens, torn>>
------------------------------------------------------------------------------
(* Statements: what must be there, what must not, what goes and what comes. *)
(* A column is <<table, column>>; a table or an index is <<name, "">>.      *)

Statement(needs, bars, drops, makes) ==
  [needs |-> needs, bars |-> bars, drops |-> drops, makes |-> makes, lenient |-> FALSE]
Named(t) == {<<t, "">>}
Whole(t, columns) == {t} \X (columns \union {""})

CreateTable(t, columns) == Statement({}, Named(t), {}, Whole(t, columns))
CreateIndex(i, t) == Statement(Named(t), Named(i), {}, Named(i))
IfNotExists(s) == [s EXCEPT !.lenient = TRUE]
DropIndexIfExists(i) == Statement({}, {}, Named(i), {})
RenameTable(s, t, columns) == Statement(Named(s), Named(t), Whole(s, columns), Whole(t, columns))
RenameColumn(t, c, d) == Statement({<<t, c>>}, {<<t, d>>}, {<<t, c>>}, {<<t, d>>})
DropColumn(t, c) == Statement({<<t, c>>}, {}, {<<t, c>>}, {})
AddColumn(t, c) == Statement(Named(t), {<<t, c>>}, {}, {<<t, c>>})

(* The migrations in order.  Columns that no later one names are left out. *)
Statements == <<
  <<CreateTable("payloads", {"kind", "rights"}), CreateIndex("payloads_current", "payloads")>>,
  <<CreateTable("node", {}), CreateTable("alias", {"namespace"}), CreateIndex("alias_by_node", "alias"),
    CreateTable("node_assertion", {}), CreateTable("edge", {}), CreateIndex("edge_forward", "edge"),
    CreateIndex("edge_backward", "edge"), CreateTable("edge_assertion", {})>>,
  <<IfNotExists(CreateTable("fetch_jobs", {})),
    IfNotExists(CreateIndex("ux_fetch_jobs_active", "fetch_jobs")),
    IfNotExists(CreateIndex("ix_fetch_jobs_claimable", "fetch_jobs"))>>,
  <<RenameTable("payloads", "artifacts", {"kind", "rights"}),
    RenameColumn("artifacts", "kind", "role"), DropIndexIfExists("payloads_current"),
    IfNotExists(CreateIndex("artifacts_current", "artifacts"))>>,
  <<DropColumn("artifacts", "rights")>>,
  <<AddColumn("artifacts", "derived_from_role"), AddColumn("artifacts", "derived_from_version")>>,
  <<RenameColumn("alias", "namespace", "scheme")>> >>

Names == DOMAIN Statements
Fails(s, db) == ~(s.needs \subseteq db) \/ (~s.lenient /\ s.bars \intersect db # {})
Run(s, db) == IF s.bars \intersect db # {} THEN db ELSE (db \ s.drops) \union s.makes
------------------------------------------------------------------------------
Idle == [step |-> "idle", name |-> 1, at |-> 1]
At(o, step) == opener[o].step = step
Goes(o, r) == opener' = [opener EXCEPT ![o] = r]
Working(o) == opener[o].step \in {"check", "run"}

(* The file is opened and the table of migrations created if need be.      *)
Open(o) ==
  /\ At(o, "idle") /\ opens < MaxOpens /\ opens' = opens + 1
  /\ Goes(o, [Idle EXCEPT !.step = "check"])
  /\ torn' = (torn \/ \E p \in Openers \ {o} : Working(p))
  /\ UNCHANGED <<schema, recorded>>

Check(o) ==
  LET r == opener[o] IN
  /\ At(o, "check")
  /\ Goes(o, IF r.name \notin Names THEN [r EXCEPT !.step = "opened"]
             ELSE IF r.name \in recorded THEN [r EXCEPT !.name = @ + 1]
             ELSE [r EXCEPT !.step = "run", !.at = 1])
  /\ UNCHANGED <<schema, recorded, opens, torn>>

(* execute_batch stops at the first statement that fails.                  *)
Execute(o) ==
  LET r == opener[o] IN
  /\ At(o, "run") /\ r.at <= Len(Statements[r.name])
  /\ LET s == Statements[r.name][r.at] IN
     IF Fails(s, schema) THEN Goes(o, [r EXCEPT !.step = "refused"]) /\ UNCHANGED schema
     ELSE Goes(o, [r EXCEPT !.at = @ + 1]) /\ schema' = Run(s, schema)
  /\ UNCHANGED <<recorded, opens, torn>>

(* Mutant: the migration is recorded before its last statement has run. *)
RecordEarly(o) ==
  LET r == opener[o] IN
  /\ At(o, "run") /\ r.at = Len(Statements[r.name])
  /\ recorded' = recorded \union {r.name}
  /\ Goes(o, [r EXCEPT !.step = "check", !.name = @ + 1])
  /\ UNCHANGED <<schema, opens, torn>>

(* The name is a primary key. *)
Record(o) ==
  LET r == opener[o] IN
  /\ At(o, "run") /\ r.at > Len(Statements[r.name])
  /\ recorded' = recorded \union {r.name}
  /\ Goes(o, IF r.name \in recorded THEN [r EXCEPT !.step = "refused"]
             ELSE [r EXCEPT !.step = "check", !.name = @ + 1])
  /\ UNCHANGED <<schema, opens, torn>>

(* A migration of which something has run and which is not recorded is     *)
(* torn, unless it can be run again from its start.                        *)
Repeatable == {m \in Names : \A i \in DOMAIN Statements[m] : Statements[m][i].lenient}
Cut(r) == r.step = "run" /\ r.at > 1 /\ r.name \notin Repeatable

(* The process ends, by a crash or at its own time. *)
End(o) ==
  /\ ~At(o, "idle") /\ Goes(o, Idle)
  /\ torn' = (torn \/ Cut(opener[o]))
  /\ UNCHANGED <<schema, recorded, opens>>

MigrationsInit ==
  /\ schema = {} /\ recorded = {} /\ opens = 0 /\ torn = FALSE
  /\ opener = [o \in Openers |-> Idle]

(* No more is opened: the bound is used up. *)
Rest == opens = MaxOpens /\ (\A o \in Openers : At(o, "idle")) /\ UNCHANGED migrationVars

MigrationsNext ==
  \/ \E o \in Openers : Open(o) \/ Check(o) \/ Execute(o) \/ Record(o) \/ End(o)
  \/ Rest

MigrationsSpec == MigrationsInit /\ [][MigrationsNext]_migrationVars
------------------------------------------------------------------------------
(* The schemas of a database whose statements ran once each, in order.     *)
Ran(n) == FoldLeft(LAMBDA db, s : Run(s, db), {}, FlattenSeq(SubSeq(Statements, 1, n)))
Final == Ran(Len(Statements))

MigrationsTypeOK ==
  /\ recorded \subseteq Names /\ opens \in 0 .. MaxOpens /\ torn \in BOOLEAN
  /\ \A o \in Openers : opener[o].step \in {"idle", "check", "run", "opened", "refused"}

(* "Applied idempotently": a store that opens has all of the final schema, *)
(* with every migration recorded, whoever else opened it and wherever they *)
(* were cut short; what is recorded has run, migration by migration; only  *)
(* one that was cut short, or met by a second process, is ever refused, or *)
(* leaves more behind (a table made again after it was renamed).           *)
MigrationsHold ==
  /\ \A o \in Openers : At(o, "opened") =>
       recorded = Names /\ Final \subseteq schema /\ (~torn => schema = Final)
  /\ ~torn => \A o \in Openers : ~At(o, "refused")
  /\ (\A o \in Openers : ~At(o, "run")) /\ ~torn =>
       \E n \in 0 .. Len(Statements) :
         /\ recorded = 1 .. n
         /\ schema = Ran(n) \/ (n + 1 \in Repeatable /\ Ran(n) \subseteq schema /\ schema \subseteq Ran(n + 1))
==============================================================================
