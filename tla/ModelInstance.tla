---------------------------- MODULE ModelInstance ----------------------------
(***************************************************************************)
(* Model instances: the fields of an object, the related object that is    *)
(* cached beside a foreign key, the set of dirty fields, and the queries   *)
(* of save(), create(), get_or_create(), bulk_create() and bulk_update().  *)
(* The instances belong to different threads or processes, which may hold  *)
(* the same row.  The model has a key, a foreign key and a field with a    *)
(* default.                                                                *)
(***************************************************************************)
EXTENDS Integers, Sequences, FiniteSets, SequencesExt

CONSTANTS
    Instances,
    Parents,   \* objects of the other model; those of KnownIds have a row
    KnownIds,  \* object -> id of its row
    Texts,     \* values of the field, of which "default" is the default
    RowIds,    \* bound on the keys of the rows
    Steps      \* bound on the operations of the program

ASSUME InstanceAssumption ==
    /\ RowIds \subseteq Nat \ {0}      \* 0 stands for None
    /\ Steps \in Nat
    /\ DOMAIN KnownIds \subseteq Parents
    /\ \A p \in DOMAIN KnownIds : KnownIds[p] # 0

VARIABLES
    meta,      \* [onlyDirty, nullable, unique, returning]: the model and database
    stored,    \* the table: id -> [user, text]
    parentId,  \* object -> id, 0 before it is saved
    data,      \* __data__: instance -> field -> value, 0 for None
    rel,       \* __rel__: instance -> <<>> or <<object>>
    dirty,     \* _dirty
    job,       \* what get_or_create() is about to do
    foreign,   \* fields of an instance's row that something else has written since
    keyLost,   \* a row has lost the key get_or_create() looks for, or is gone
    outcome,   \* how the last save() ended, if nothing was assigned since
    steps

instanceVars == <<meta, stored, parentId, data, rel, dirty, job, foreign, keyLost, outcome, steps>>

Fields == {"id", "user", "text"}
Unused == [f \in {} |-> 0]

InstanceInit ==
    /\ meta = [onlyDirty |-> FALSE, nullable |-> TRUE, unique |-> FALSE, returning |-> TRUE]
    /\ stored = [k \in {} |-> Unused]
    /\ parentId = [p \in Parents |-> IF p \in DOMAIN KnownIds THEN KnownIds[p] ELSE 0]
    /\ data = [i \in Instances |-> Unused] /\ rel = [i \in Instances |-> <<>>]
    /\ dirty = [i \in Instances |-> {}] /\ job = [i \in Instances |-> "none"]
    /\ foreign = [i \in Instances |-> {}] /\ outcome = [i \in Instances |-> "none"]
    /\ keyLost = FALSE /\ steps = Steps + 1

Configure(m) ==
    /\ steps = Steps + 1 /\ steps' = Steps
    /\ meta' = m
    /\ UNCHANGED <<stored, parentId, data, rel, dirty, job, foreign, outcome>>

Step == steps > 0 /\ steps <= Steps /\ steps' = steps - 1

ValueOf(d, f) == IF f \in DOMAIN d THEN d[f] ELSE 0
Put(d, f, v) == [k \in DOMAIN d \cup {f} |-> IF k = f THEN v ELSE d[k]]
Only(d, S) == [k \in DOMAIN d \cap S |-> d[k]]
Pk(i) == ValueOf(data[i], "id")
Free(i) == data[i] = Unused /\ job[i] = "none"

\* ObjectIdAccessor: the id of the related object if there is none of its own.
ObjectId(d, r) == IF ValueOf(d, "user") = 0 /\ r # <<>> THEN parentId[r[1]] ELSE ValueOf(d, "user")

-----------------------------------------------------------------------------
\* The table.  What one instance writes is foreign to the others of the row.
Touched(by, k, fs) ==
    [i \in Instances |-> IF i = by THEN foreign[i] \ fs
                         ELSE IF Pk(i) = k THEN foreign[i] \cup fs ELSE foreign[i]]

Allowed(k, row) ==
    /\ meta.nullable \/ row.user # 0
    /\ meta.unique => \A n \in DOMAIN stored \ {k} : stored[n].text # row.text
NewId == 1 + FoldSet(LAMBDA a, b : IF a > b THEN a ELSE b, 0, DOMAIN stored)

\* Insert: what the dictionary lacks has the model's default, or NULL.
Row(d) == [user |-> ValueOf(d, "user"), text |-> IF "text" \in DOMAIN d THEN d["text"] ELSE "default"]

-----------------------------------------------------------------------------
\* Model(): defaults are dirty; the accessors do the rest.
New(i, text) ==
    /\ Free(i) /\ Step
    /\ data' = [data EXCEPT ![i] = Put(Unused, "text", text)]
    /\ dirty' = [dirty EXCEPT ![i] = {"text"}]
    /\ foreign' = [foreign EXCEPT ![i] = {}] /\ outcome' = [outcome EXCEPT ![i] = "none"]
    /\ UNCHANGED <<meta, stored, parentId, rel, job>>

\* An instance read from the table, with some of its fields.
Loaded(i, k, fs) ==
    /\ data' = [data EXCEPT ![i] = Only(Put(stored[k], "id", k), fs \cup {"id"})]
    /\ dirty' = [dirty EXCEPT ![i] = {}] /\ rel' = [rel EXCEPT ![i] = <<>>]
    /\ foreign' = [foreign EXCEPT ![i] = {}] /\ outcome' = [outcome EXCEPT ![i] = "none"]

Load(i, k, fs) ==
    /\ Free(i) /\ Step /\ k \in DOMAIN stored
    /\ Loaded(i, k, fs)
    /\ UNCHANGED <<meta, stored, parentId, job>>

\* FieldAccessor.__set__
SetText(i, v) ==
    /\ data[i] # Unused /\ Step
    /\ data' = [data EXCEPT ![i] = Put(@, "text", v)]
    /\ dirty' = [dirty EXCEPT ![i] = @ \cup {"text"}]
    /\ outcome' = [outcome EXCEPT ![i] = "none"]
    /\ UNCHANGED <<meta, stored, parentId, rel, job, foreign>>

\* ForeignKeyAccessor.__set__ with an object, which need not have an id yet.
SetUser(i, p) ==
    /\ data[i] # Unused /\ Step
    /\ data' = [data EXCEPT ![i] = Put(@, "user", parentId[p])]
    /\ rel' = [rel EXCEPT ![i] = <<p>>]
    /\ dirty' = [dirty EXCEPT ![i] = @ \cup {"user"}]
    /\ outcome' = [outcome EXCEPT ![i] = "none"]
    /\ UNCHANGED <<meta, stored, parentId, job, foreign>>

\* With an id or None: the cached object stays if it is the same id.
KeptObject(i, v) == IF v # 0 /\ v = ValueOf(data[i], "user") THEN rel[i] ELSE <<>>

SetUserId(i, v) ==
    /\ data[i] # Unused /\ Step
    /\ rel' = [rel EXCEPT ![i] = KeptObject(i, v)]
    /\ data' = [data EXCEPT ![i] = Put(@, "user", v)]
    /\ dirty' = [dirty EXCEPT ![i] = @ \cup {"user"}]
    /\ outcome' = [outcome EXCEPT ![i] = "none"]
    /\ UNCHANGED <<meta, stored, parentId, job, foreign>>

\* ForeignKeyAccessor.get_rel_instance(): the object is read once.
GetUser(i) ==
    /\ data[i] # Unused /\ Step
    /\ rel[i] = <<>> /\ ValueOf(data[i], "user") # 0
    /\ \E p \in DOMAIN KnownIds : KnownIds[p] = ValueOf(data[i], "user") /\ rel' = [rel EXCEPT ![i] = <<p>>]
    /\ UNCHANGED <<meta, stored, parentId, data, dirty, job, foreign, outcome>>

SaveParent(p) ==
    /\ parentId[p] = 0 /\ Step
    /\ parentId' = [parentId EXCEPT ![p] = 1 + Cardinality(DOMAIN KnownIds)]
    /\ outcome' = [i \in Instances |-> "none"]
    /\ UNCHANGED <<meta, stored, data, rel, dirty, job, foreign>>

-----------------------------------------------------------------------------
\* save().  The fields it is about: those of only, or the dirty ones, or all; a
\* foreign key that is None takes the id its object has got in the meantime.
Chosen(i, only, force) ==
    IF only # {} THEN Only(data[i], only)
    ELSE IF meta.onlyDirty /\ ~force THEN Only(data[i], dirty[i])
    ELSE data[i]
Late(i, fs) == "user" \in DOMAIN fs /\ fs["user"] = 0 /\ rel[i] # <<>>

Populated(i, fs) == IF Late(i, fs) THEN [fs EXCEPT !["user"] = parentId[rel[i][1]]] ELSE fs

\* Mutation: all dirty marks are gone.
StillDirtyNone(i, fs) == {}

StillDirty(i, fs) == dirty[i] \ DOMAIN fs

Saved(i, row, fs) ==
    /\ data' = [data EXCEPT ![i] = row]
    /\ dirty' = [dirty EXCEPT ![i] = StillDirty(i, fs)]

Save(i, only, force) ==
    LET chosen == Chosen(i, only, force)
        fs == Populated(i, chosen)
        mine == IF Late(i, chosen) THEN Put(data[i], "user", fs["user"]) ELSE data[i]
        update == Pk(i) # 0 /\ ~force
        columns == Only(fs, {"user", "text"})
        id == IF Pk(i) = 0 THEN NewId ELSE Pk(i)
    IN /\ data[i] # Unused /\ job[i] = "none" /\ Step
       /\ IF meta.onlyDirty /\ ~force /\ only = {} /\ chosen = Unused
          THEN /\ dirty' = [dirty EXCEPT ![i] = {}]
               /\ outcome' = [outcome EXCEPT ![i] = "False"]
               /\ UNCHANGED <<stored, data, foreign>>
          ELSE IF update
          THEN IF columns = Unused \/ (Pk(i) \in DOMAIN stored
                                       /\ ~Allowed(Pk(i), [f \in {"user", "text"} |->
                                            IF f \in DOMAIN columns THEN columns[f] ELSE stored[Pk(i)][f]]))
               THEN /\ outcome' = [outcome EXCEPT ![i] = "error"]
                    /\ data' = [data EXCEPT ![i] = mine]
                    /\ dirty' = [dirty EXCEPT ![i] = IF Late(i, chosen) THEN @ \cup {"user"} ELSE @]
                    /\ UNCHANGED <<stored, foreign>>
               ELSE /\ stored' = [k \in DOMAIN stored |->
                                    IF k # Pk(i) THEN stored[k]
                                    ELSE [f \in {"user", "text"} |->
                                            IF f \in DOMAIN columns THEN columns[f] ELSE stored[k][f]]]
                    /\ foreign' = Touched(i, Pk(i), DOMAIN columns)
                    /\ Saved(i, mine, columns)
                    /\ outcome' = [outcome EXCEPT ![i] = IF only = {} THEN "saved" ELSE "part"]
          ELSE IF id \in DOMAIN stored \/ ~Allowed(id, Row(fs))
               THEN /\ outcome' = [outcome EXCEPT ![i] = "error"]
                    /\ data' = [data EXCEPT ![i] = mine]
                    /\ dirty' = [dirty EXCEPT ![i] = IF Late(i, chosen) THEN @ \cup {"user"} ELSE @]
                    /\ UNCHANGED <<stored, foreign>>
               ELSE /\ id \in RowIds
                    /\ stored' = [k \in DOMAIN stored \cup {id} |-> IF k = id THEN Row(fs) ELSE stored[k]]
                    /\ Saved(i, Put(mine, "id", id), Put(fs, "id", id))
                    /\ foreign' = [Touched(i, id, {"user", "text"}) EXCEPT ![i] = {"user", "text"} \ DOMAIN fs]
                    /\ outcome' = [outcome EXCEPT ![i] = IF only = {} THEN "saved" ELSE "part"]
       /\ UNCHANGED <<meta, parentId, rel, job>>

\* bulk_create(): one INSERT; the keys come back in the order of the rows if the
\* database returns them.  Nothing is clean afterwards, the key is dirty too.
BulkCreate(i, j) ==
    LET id(k) == IF k = i THEN NewId ELSE NewId + 1
        ids == {id(i), id(j)}
        row(k) == [user |-> ObjectId(data[k], rel[k]), text |-> ValueOf(data[k], "text")]
    IN /\ i # j /\ Step /\ \A k \in {i, j} : data[k] # Unused /\ Pk(k) = 0 /\ job[k] = "none"
       /\ ids \subseteq RowIds \ DOMAIN stored
       /\ \A k \in {i, j} : "text" \in DOMAIN data[k] /\ Allowed(id(k), row(k))
       /\ meta.unique => row(i).text # row(j).text
       /\ stored' = [n \in DOMAIN stored \cup ids |->
                       IF n = id(i) THEN row(i) ELSE IF n = id(j) THEN row(j) ELSE stored[n]]
       /\ IF meta.returning
          THEN /\ data' = [k \in Instances |-> IF k \in {i, j} THEN Put(data[k], "id", id(k)) ELSE data[k]]
               /\ dirty' = [k \in Instances |-> IF k \in {i, j} THEN dirty[k] \cup {"id"} ELSE dirty[k]]
          ELSE UNCHANGED <<data, dirty>>
       /\ foreign' = [k \in Instances |-> IF Pk(k) \in ids THEN foreign[k] \cup {"user", "text"} ELSE foreign[k]]
       /\ UNCHANGED <<meta, parentId, rel, job, outcome>>

\* bulk_update([i, j], [text]): one UPDATE with a CASE over the keys, the first of
\* which that fits.
BulkUpdate(i, j) ==
    LET text(k) == IF Pk(i) = k THEN ValueOf(data[i], "text") ELSE ValueOf(data[j], "text")
        new == [k \in DOMAIN stored |-> IF k \in {Pk(i), Pk(j)} THEN [stored[k] EXCEPT !.text = text(k)] ELSE stored[k]]
    IN /\ i # j /\ Step /\ \A k \in {i, j} : Pk(k) # 0 /\ "text" \in DOMAIN data[k] /\ job[k] = "none"
       /\ meta.unique => \A k, n \in DOMAIN new : new[k].text = new[n].text => k = n
       /\ stored' = new
       /\ foreign' = [k \in Instances |->
                        IF Pk(k) \in {Pk(i), Pk(j)} /\ ValueOf(data[k], "text") # text(Pk(k))
                        THEN foreign[k] \cup {"text"} ELSE foreign[k]]
       /\ UNCHANGED <<meta, parentId, data, rel, dirty, job, outcome>>

DeleteInstance(i) ==
    /\ Pk(i) # 0 /\ job[i] = "none" /\ Step
    /\ stored' = [k \in DOMAIN stored \ {Pk(i)} |-> stored[k]]
    /\ UNCHANGED <<meta, parentId, data, rel, dirty, job, foreign, outcome>>

-----------------------------------------------------------------------------

\* get_or_create(text=...): get(), else create() in a transaction, else, if that
\* violates a constraint, get() again.
Search(i, v, found, next) ==
    LET hits == {k \in DOMAIN stored : stored[k].text = v}
    IN IF hits # {}
       THEN /\ \E k \in hits : Loaded(i, k, Fields)
            /\ job' = [job EXCEPT ![i] = found]
       ELSE /\ job' = [job EXCEPT ![i] = next]
            /\ UNCHANGED <<data, dirty, rel, foreign, outcome>>

GetOrCreate(i, v) ==
    /\ Free(i) /\ Step
    /\ v = "key"
    /\ Search(i, v, "got", "create")
    /\ UNCHANGED <<meta, stored, parentId>>

Create(i) ==
    LET row == [user |-> 1, text |-> "key"]
    IN /\ job[i] = "create" /\ NewId \in RowIds \ DOMAIN stored
       /\ IF Allowed(NewId, row)
          THEN /\ stored' = [k \in DOMAIN stored \cup {NewId} |-> IF k = NewId THEN row ELSE stored[k]]
               /\ data' = [data EXCEPT ![i] = [id |-> NewId, user |-> 1, text |-> "key"]]
               /\ foreign' = Touched(i, NewId, {"user", "text"})
               /\ job' = [job EXCEPT ![i] = "created"]
          ELSE job' = [job EXCEPT ![i] = "again"] /\ UNCHANGED <<stored, data, foreign>>
       /\ UNCHANGED <<meta, parentId, rel, dirty, outcome, steps>>

GetAgain(i) ==
    /\ job[i] = "again"
    /\ Search(i, "key", "got", "raised")
    /\ UNCHANGED <<meta, stored, parentId, steps>>

Op ==
    \/ \E o, n, u, r \in BOOLEAN :
         Configure([onlyDirty |-> o, nullable |-> n, unique |-> u, returning |-> r])
    \/ \E p \in Parents : SaveParent(p)
    \/ \E i \in Instances :
         \/ \E v \in Texts : New(i, v) \/ SetText(i, v) \/ GetOrCreate(i, v)
         \/ \E k \in DOMAIN stored, fs \in {Fields, {"user"}} : Load(i, k, fs)
         \/ \E p \in Parents : SetUser(i, p)
         \/ \E v \in {0, 1} : SetUserId(i, v)
         \/ GetUser(i) \/ DeleteInstance(i) \/ Create(i) \/ GetAgain(i)
         \/ \E only \in {{}, {"text"}}, force \in BOOLEAN : Save(i, only, force)
         \/ \E j \in Instances : BulkCreate(i, j) \/ BulkUpdate(i, j)

InstanceNext ==
    /\ Op
    /\ keyLost' = (keyLost \/ \E k \in DOMAIN stored :
                     /\ stored[k].text = "key"
                     /\ k \in DOMAIN stored' => stored'[k].text # "key")

InstanceSpec == InstanceInit /\ [][InstanceNext]_instanceVars

-----------------------------------------------------------------------------
\* What an instance does not list as dirty is in its row, unless somebody else has
\* written that column or deleted the row since.
CleanIsStored ==
    \A i \in Instances :
        Pk(i) \in DOMAIN stored =>
            \A f \in DOMAIN data[i] \ (dirty[i] \cup foreign[i] \cup {"id"}) : stored[Pk(i)][f] = data[i][f]

\* The object and the id beside each other are the same one, and what save() has
\* left in the row is the id that the instance shows, even if the object was
\* assigned before it had one.
SavedAsShown ==
    \A i \in Instances :
        /\ rel[i] # <<>> => ValueOf(data[i], "user") \in {0, parentId[rel[i][1]]}
        /\ outcome[i] = "saved" /\ ~meta.onlyDirty /\ "user" \notin foreign[i] /\ Pk(i) \in DOMAIN stored
             => stored[Pk(i)].user = ObjectId(data[i], rel[i])

\* get_or_create() fails only if the row that was in its way has been deleted
\* or got another key before it could read it, and what it returns has the key it was asked for.
GetOrCreateAnswers ==
    \A i \in Instances :
        /\ job[i] = "raised" => keyLost
        /\ job[i] = "got" /\ dirty[i] = {} => data[i]["text"] = "key"

\* Instances show what is in the table, as far as they do not say that they differ,
\* and get_or_create() answers for the key it was asked for.
InstancesTrue == CleanIsStored /\ SavedAsShown /\ GetOrCreateAnswers
=============================================================================
