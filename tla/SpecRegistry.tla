---------------------------- MODULE SpecRegistry ----------------------------
(***************************************************************************)
(* src/tmo/specs.py and src/tmo/ledger.py as operators: pre-registered     *)
(* strategies, hash-committed, in ledgers whose rows are keyed and never   *)
(* edited.                                                                 *)
(*                                                                         *)
(* A ledger is the set of its rows, each with its key in .id: nothing that *)
(* reads one depends on the order of its lines.  A spec is a record        *)
(*   sid, version    what it calls itself                                  *)
(*   rules           entry, exit, sizing, hedging and costs                *)
(*   supersedes      the hash of the spec it replaces, or NULL             *)
(*   complete        whether the file has every required key               *)
(*   notes           a comment, which is no rule                           *)
(* and a directory of specs is the set of its files.                       *)
(***************************************************************************)
EXTENDS Integers, FiniteSets

CONSTANT NULL

(* What the canonical form keeps.  Two specs have one hash exactly when they *)
(* agree on it, so it stands for its hash.                                   *)
Hash(spec) == [sid |-> spec.sid, version |-> spec.version, rules |-> spec.rules,
               supersedes |-> spec.supersedes]

Keys(ledger) == {r.id : r \in ledger}

AppendedOverwrites(ledger, rows) ==
    {r \in ledger : r.id \notin Keys(rows)} \union rows

(* Rows whose key is already present are dropped. *)
Appended(ledger, rows) == ledger \union {r \in rows : r.id \notin Keys(ledger)}

(* A file whose id and version are registered under other rules, or one that *)
(* supersedes what was never registered.                                     *)
Contradicts(spec, registry) ==
    LET prior == {r \in registry : r.sid = spec.sid /\ r.version = spec.version}
    IN  \/ \E r \in prior : r.id # Hash(spec)
        \/ spec.supersedes # NULL /\ spec.supersedes \notin Keys(registry)

AcceptableIfNamed(files, registry) ==
    /\ \A s \in files : s.complete
    /\ \A s \in files : s.supersedes = NULL \/ s.supersedes \in Keys(registry)

(* load_all and verify_immutable raise nothing. *)
Acceptable(files, registry) ==
    /\ \A s \in files : s.complete
    /\ \A s \in files : ~Contradicts(s, registry)

RegistryRow(spec, day) ==
    [id |-> Hash(spec), sid |-> spec.sid, version |-> spec.version, registered |-> day]

RegistryRows(files, day) == {RegistryRow(s, day) : s \in files}

(* Specs that no other spec supersedes. *)
Live(files) ==
    LET retired == {s.supersedes : s \in files} \ {NULL}
    IN  {s \in files : Hash(s) \notin retired}

=============================================================================
