------------------------------ MODULE ModelDicts -------------------------------
(***************************************************************************)
(* playhouse/shortcuts.py: model_to_dict() turns an instance, and what it  *)
(* refers to, into nested dictionaries; dict_to_model() and                *)
(* update_model_from_dict() turn these into instances again.               *)
(*                                                                         *)
(* An object is a record: model and data (field -> value; the value of a   *)
(* foreign key is an object or None).  A dictionary maps a name to a       *)
(* record: value, and dicts, the dictionaries nested there; kind tells the *)
(* three forms apart: "value", "dict" and "list".                          *)
(***************************************************************************)
EXTENDS Integers, Sequences, FiniteSets, SequencesExt

CONSTANTS
    Models, FieldsOf,      \* FieldsOf[m]: the model's fields, foreign keys included
    Fks, ModelOf, RelOf,   \* the foreign keys, the models that have and that they refer to
    Hidden,                \* the foreign keys whose backref is "+"
    Graphs,                \* stored objects: identifier -> object
    Excludes, Onlys,       \* values of exclude and only
    Depths,                \* values of max_depth; -1 for None
    None

VARIABLES stored, options, root, dict, instance

dictVars == <<stored, options, root, dict, instance>>

Empty == [n \in {} |-> {}]
Value(v) == [kind |-> "value", value |-> v, dicts |-> <<>>]
Nested(d) == [kind |-> "dict", value |-> None, dicts |-> <<d>>]
Listed(ds) == [kind |-> "list", value |-> None, dicts |-> ds]
Backrefs(m) == {k \in Fks \ Hidden : RelOf[k] = m}
BackrefOf(k) == <<"backref", k>>

\* The instances a back reference finds, in the order of their rows.
Referring(k, o) ==
    SetToSortSeq({p \in DOMAIN stored : stored[p].model = ModelOf[k] /\ stored[p].data[k] = o}, <)

\* should_skip()
Skips(n, only, exclude) == n \in exclude \/ (only # {} /\ n \notin only)

\* The next set of backrefs to walk; exclude grows from one to the next, so what
\* one of them nests has no foreign key of those walked before.
RECURSIVE ModelToDict(_, _, _, _, _, _)
ModelToDict(o, opts, given, seen, depth, backrefs) ==
    LET m == stored[o].model
        data == stored[o].data
        recurse == opts.recurse /\ depth # 0
        exclude == given \cup seen
        shown == {n \in FieldsOf[m] : ~Skips(n, opts.only, exclude)}
        follows(n) == n \in Fks /\ recurse /\ data[n] # None
        plain == [n \in shown |->
                    IF follows(n)
                    THEN Nested(ModelToDict(data[n], opts, exclude, seen \cup {n}, depth - 1, backrefs))
                    ELSE Value(data[n])]
        walked == SetToSeq({k \in Backrefs(m) :
                     /\ backrefs /\ recurse
                     /\ k \notin exclude
                     /\ opts.only # {} => k \in opts.only})
        before(i) == exclude \cup {walked[j] : j \in 1..i}
        lists == [b \in {BackrefOf(walked[i]) : i \in DOMAIN walked} |->
                    LET i == CHOOSE j \in DOMAIN walked : BackrefOf(walked[j]) = b
                        found == Referring(walked[i], o)
                    IN  Listed([p \in DOMAIN found |->
                            ModelToDict(found[p], opts, before(i), {}, depth - 1, backrefs)])]
    IN  [fields |-> plain, lists |-> lists]

-----------------------------------------------------------------------------

\* update_model_from_dict(): a nested dictionary becomes a related instance, which
\* gives the foreign key its value; the instances of a list are told their owner.
\* An instance: model, data, rel (fk -> instance) and lists (backref -> instances).
Linked(child, k, value) == [child EXCEPT !.data = (k :> value) @@ @]

RECURSIVE FromDict(_, _)
FromDict(m, d) ==
    LET related == {n \in DOMAIN d.fields : d.fields[n].kind = "dict"}
        rel == [n \in related |-> FromDict(RelOf[n], d.fields[n].dicts[1])]
        key(i) == IF "id" \in DOMAIN i.data THEN i.data["id"] ELSE None
        data == [n \in DOMAIN d.fields |->
                    IF n \in related THEN key(rel[n]) ELSE d.fields[n].value]
        own == IF "id" \in DOMAIN data THEN data["id"] ELSE None
    IN  [model |-> m, data |-> data, rel |-> rel,
         lists |-> [b \in DOMAIN d.lists |->
                      [p \in DOMAIN d.lists[b].dicts |->
                         Linked(FromDict(ModelOf[b[2]], d.lists[b].dicts[p]), b[2], own)]]]

-----------------------------------------------------------------------------
Init ==
    /\ stored \in Graphs
    /\ root \in DOMAIN stored
    /\ options \in [recurse : BOOLEAN, backrefs : BOOLEAN, depth : Depths,
                    only : Onlys, exclude : Excludes]
    /\ dict = [fields |-> Empty, lists |-> Empty]
    /\ instance = [model |-> None, data |-> Empty, rel |-> Empty, lists |-> Empty]

Serialized ==
    /\ dict.fields = Empty
    /\ dict' = ModelToDict(root, options, options.exclude, {}, options.depth, options.backrefs)
    /\ UNCHANGED <<stored, options, root, instance>>

Restored ==
    /\ dict.fields # Empty
    /\ instance.model = None
    /\ instance' = FromDict(stored[root].model, dict)
    /\ UNCHANGED <<stored, options, root, dict>>

Next == Serialized \/ Restored

Spec == Init /\ [][Next]_dictVars

-----------------------------------------------------------------------------
\* What an instance says of the row it stands for.
RECURSIVE Agrees(_, _)
Agrees(i, o) ==
    /\ i.model = stored[o].model
    /\ \A n \in DOMAIN i.data : i.data[n] = stored[o].data[n]
    /\ \A n \in DOMAIN i.rel : Agrees(i.rel[n], stored[o].data[n])
    /\ \A b \in DOMAIN i.lists :
         /\ Len(i.lists[b]) = Len(Referring(b[2], o))
         /\ \A p \in DOMAIN i.lists[b] :
              /\ b[2] \in DOMAIN i.lists[b][p].data
              /\ Agrees(i.lists[b][p], Referring(b[2], o)[p])

\* Instances made from the dictionary of an instance agree with the rows: the
\* instance itself has every field that was asked for, what is nested in it has
\* no value that its row has not, and the members of a list belong to the owner of
\* the list, however the objects refer to one another.
DictsRoundTrip ==
    (instance.model # None /\ "id" \in DOMAIN instance.data) =>
    /\ DOMAIN instance.data = {n \in FieldsOf[stored[root].model] :
                                 ~Skips(n, options.only, options.exclude)}
    /\ (options.only = {} /\ options.exclude = {}) => Agrees(instance, root)
=============================================================================
