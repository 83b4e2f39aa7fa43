--------------------------- MODULE ComponentsProofs ---------------------------
(***************************************************************************)
(* Proofs about components that stand by themselves: model instances and   *)
(* their rows, statements that are run again, the connections of SQLite,   *)
(* the key-value store and many-to-many fields.                            *)
(***************************************************************************)
EXTENDS ModelInstance, Retries, SqliteConnections, KeyValueStore, ManyToMany,
        FiniteSetTheorems, TLAPS

(***************************************************************************)
(* ModelInstance: what an instance shows and what its row holds.           *)
(***************************************************************************)

\* The variables are functions of the instances, rows have their columns, the
\* fields of an instance are fields of the model, and objects with a row show its key.
Shaped ==
    /\ DOMAIN data = Instances /\ DOMAIN dirty = Instances /\ DOMAIN foreign = Instances
    /\ DOMAIN rel = Instances /\ DOMAIN job = Instances /\ DOMAIN outcome = Instances
    /\ \A i \in Instances :
         /\ DOMAIN data[i] \subseteq Fields
         /\ rel[i] = <<>> \/ (rel[i] = <<rel[i][1]>> /\ rel[i][1] \in Parents)
    /\ DOMAIN stored \subseteq RowIds
    /\ \A k \in DOMAIN stored : DOMAIN stored[k] = {"user", "text"}
    /\ DOMAIN parentId = Parents
    /\ \A p \in DOMAIN KnownIds : parentId[p] = KnownIds[p]

\* Nothing has happened before the model was configured.
Unconfigured ==
    /\ steps \in Int
    /\ steps = Steps + 1 => \A i \in Instances : outcome[i] = "none" /\ job[i] = "none"

\* An instance without a key has never been in the table: all it has is dirty.
NewIsDirty == \A i \in Instances : Pk(i) = 0 => DOMAIN data[i] \subseteq dirty[i]

\* An instance that was never given the foreign key has no object beside it, and its
\* row has none, unless somebody else wrote it there.
NoUserNoObject ==
    \A i \in Instances :
        "user" \notin DOMAIN data[i] =>
            /\ rel[i] = <<>>
            /\ Pk(i) \in DOMAIN stored /\ "user" \notin foreign[i] => stored[Pk(i)].user = 0

\* Between the queries of get_or_create() the instance is empty, and once its INSERT
\* was refused the row that was in its way is there, or has lost its key since.
Searching ==
    \A i \in Instances :
        /\ job[i] \in {"create", "again"} => data[i] = Unused
        /\ job[i] = "again" => keyLost \/ \E k \in DOMAIN stored : stored[k].text = "key"

InstanceInv ==
    /\ Shaped /\ Unconfigured /\ NewIsDirty /\ NoUserNoObject /\ Searching
    /\ CleanIsStored /\ SavedAsShown /\ GetOrCreateAnswers

\* What SavedAsShown says of one instance.
Shows(i) ==
    /\ rel[i] # <<>> => ValueOf(data[i], "user") \in {0, parentId[rel[i][1]]}
    /\ outcome[i] = "saved" /\ ~meta.onlyDirty /\ "user" \notin foreign[i] /\ Pk(i) \in DOMAIN stored
         => stored[Pk(i)].user = ObjectId(data[i], rel[i])

\* It is all of SavedAsShown.
LEMMA ShowsAll == /\ SavedAsShown <=> \A i \in Instances : Shows(i)
                  /\ SavedAsShown' <=> \A i \in Instances : Shows(i)'
BY DEF SavedAsShown, Shows

\* What every step makes of keyLost.
KeyMayBeLost ==
    keyLost' = (keyLost \/ \E k \in DOMAIN stored :
                     /\ stored[k].text = "key"
                     /\ k \in DOMAIN stored' => stored'[k].text # "key")

\* The first state.
LEMMA InstanceStarts == InstanceInit => InstanceInv
<1> SUFFICES ASSUME InstanceInit PROVE InstanceInv OBVIOUS
<1> USE DEF InstanceInit
<1>1. Shaped BY InstanceAssumption DEF Shaped, Unused
<1>2. Unconfigured BY InstanceAssumption DEF Unconfigured
<1>3. NewIsDirty BY DEF NewIsDirty, Unused
<1>4. NoUserNoObject BY DEF NoUserNoObject
<1>5. Searching BY DEF Searching
<1>6. CleanIsStored BY DEF CleanIsStored
<1>7. SavedAsShown BY DEF SavedAsShown
<1>8. GetOrCreateAnswers BY DEF GetOrCreateAnswers
<1> QED BY <1>1, <1>2, <1>3, <1>4, <1>5, <1>6, <1>7, <1>8 DEF InstanceInv

\* Assigning the field.
LEMMA SetTextKeeps ==
    ASSUME InstanceInv, NEW i \in Instances, NEW v, SetText(i, v), KeyMayBeLost
    PROVE  InstanceInv'
<1> USE DEF SetText, Step
<1> USE InstanceInv DEF InstanceInv
<1>1. Shaped' BY DEF Shaped, Put, Fields
<1>2. Unconfigured' BY InstanceAssumption DEF Unconfigured, Shaped
<1>3. NewIsDirty' BY DEF NewIsDirty, Shaped, Pk, ValueOf, Put
<1>4. NoUserNoObject' BY DEF NoUserNoObject, Shaped, Pk, ValueOf, Put
<1>5. Searching' BY DEF Searching, Shaped, KeyMayBeLost
<1>6. CleanIsStored' BY DEF CleanIsStored, Shaped, Pk, ValueOf, Put
<1>7. SavedAsShown' BY DEF SavedAsShown, Shaped, Pk, ValueOf, Put, ObjectId
<1>8. GetOrCreateAnswers' BY DEF GetOrCreateAnswers, Shaped, Put, KeyMayBeLost
<1> QED BY <1>1, <1>2, <1>3, <1>4, <1>5, <1>6, <1>7, <1>8 DEF InstanceInv

\* Configuring the model.
LEMMA ConfigureKeeps ==
    ASSUME InstanceInv, NEW m, Configure(m), KeyMayBeLost
    PROVE  InstanceInv'
<1> USE InstanceInv, InstanceAssumption DEF InstanceInv, Step, Free, Configure
<1>1. Shaped' BY DEF Shaped, Put, Only, Fields
<1>2. Unconfigured' BY DEF Unconfigured, Shaped, Step
<1>3. NewIsDirty' BY DEF NewIsDirty, Shaped, Pk, ValueOf, Put, Only
<1>4. NoUserNoObject' BY DEF NoUserNoObject, Shaped, Pk, ValueOf, Put, Only
<1>5. Searching' BY DEF Searching, Shaped, KeyMayBeLost
<1>6. CleanIsStored' BY DEF CleanIsStored, Shaped, Pk, ValueOf, Put, Only
<1>7. SavedAsShown' BY DEF SavedAsShown, Unconfigured, Shaped, Pk, ValueOf, Put, Only, ObjectId
<1>8. GetOrCreateAnswers' BY DEF GetOrCreateAnswers, Shaped, Put, KeyMayBeLost
<1> QED BY <1>1, <1>2, <1>3, <1>4, <1>5, <1>6, <1>7, <1>8 DEF InstanceInv

\* A new instance.
LEMMA NewKeeps ==
    ASSUME InstanceInv, NEW i \in Instances, NEW v, New(i, v), KeyMayBeLost
    PROVE  InstanceInv'
<1> USE InstanceInv, InstanceAssumption DEF InstanceInv, Step, Free, New
<1>0. /\ DOMAIN data' = Instances /\ DOMAIN data'[i] = {"text"} /\ DOMAIN data'[i] \subseteq Fields
      /\ \A k \in Instances \ {i} : data'[k] = data[k]
  BY DEF Shaped, Unused, Put, Fields
<1>1. Shaped' BY <1>0 DEF Shaped
<1>2. Unconfigured' BY DEF Unconfigured, Shaped, Step
<1>3. NewIsDirty' BY DEF NewIsDirty, Unused, Shaped, Pk, ValueOf, Put, Only
<1>4. NoUserNoObject' BY DEF NoUserNoObject, Unused, Shaped, Pk, ValueOf, Put, Only
<1>5. Searching' BY DEF Searching, Shaped, KeyMayBeLost
<1>6. CleanIsStored' BY DEF CleanIsStored, Unused, Shaped, Pk, ValueOf, Put, Only
<1>7. SavedAsShown' BY DEF SavedAsShown, Shaped, Pk, ValueOf, Put, Only, ObjectId
<1>8. GetOrCreateAnswers' BY DEF GetOrCreateAnswers, Shaped, Put, KeyMayBeLost
<1> QED BY <1>1, <1>2, <1>3, <1>4, <1>5, <1>6, <1>7, <1>8 DEF InstanceInv

\* What an instance is that was read with fields fs of row k.
LoadedAs(d, row, k, fs) ==
    /\ DOMAIN d \subseteq Fields /\ "user" \in DOMAIN d
    /\ ValueOf(d, "id") = k /\ ValueOf(d, "user") = row["user"]
    /\ fs = Fields => d["text"] = row["text"]
    /\ \A f \in DOMAIN d \ {"id"} : d[f] = row[f]

\* It has these fields.
LEMMA LoadedFields ==
    ASSUME NEW row, NEW k, NEW fs, DOMAIN row = {"user", "text"}, fs \in {Fields, {"user"}}
    PROVE  LoadedAs(Only(Put(row, "id", k), fs \cup {"id"}), row, k, fs)
BY DEF LoadedAs, Only, Put, Fields, ValueOf

\* Reading an instance from the table, by itself or for get_or_create().
LEMMA LoadedKeeps ==
    ASSUME InstanceInv, NEW i \in Instances, NEW k \in DOMAIN stored, NEW fs \in {Fields, {"user"}},
           Loaded(i, k, fs), UNCHANGED <<meta, stored, parentId>>, Unconfigured',
           \/ job' = job /\ job[i] = "none"
           \/ job' = [job EXCEPT ![i] = "got"] /\ fs = Fields /\ stored[k].text = "key",
           KeyMayBeLost
    PROVE  InstanceInv'
<1> DEFINE d == Only(Put(stored[k], "id", k), fs \cup {"id"})
<1> USE InstanceInv, InstanceAssumption DEF InstanceInv, Loaded
<1>0. data' = [data EXCEPT ![i] = d] /\ k # 0 BY DEF Shaped
<1>d. LoadedAs(d, stored[k], k, fs) BY LoadedFields DEF Shaped
<1> HIDE DEF d
<1>j. /\ DOMAIN job' = Instances /\ \A j \in Instances \ {i} : job'[j] = job[j]
      /\ job'[i] = "none" \/ (job'[i] = "got" /\ fs = Fields /\ stored[k].text = "key")
  BY DEF Shaped
<1> USE <1>0, <1>d, <1>j
<1>r. /\ DOMAIN rel' = Instances /\ rel'[i] = <<>> /\ \A j \in Instances \ {i} : rel'[j] = rel[j]
      /\ DOMAIN data' = Instances /\ data'[i] = d /\ \A j \in Instances \ {i} : data'[j] = data[j]
      /\ DOMAIN d \subseteq Fields
  BY DEF Shaped, LoadedAs
<1>1. Shaped'
  <2>1. /\ DOMAIN data' = Instances /\ DOMAIN dirty' = Instances /\ DOMAIN foreign' = Instances
        /\ DOMAIN rel' = Instances /\ DOMAIN job' = Instances /\ DOMAIN outcome' = Instances
    BY <1>r DEF Shaped
  <2>2. ASSUME NEW j \in Instances
        PROVE  /\ DOMAIN data'[j] \subseteq Fields
               /\ rel'[j] = <<>> \/ (rel'[j] = <<rel'[j][1]>> /\ rel'[j][1] \in Parents)
    <3>1. CASE j = i BY <1>r, <3>1
    <3>2. CASE j # i BY <1>r, <3>2 DEF Shaped
    <3> QED BY <3>1, <3>2
  <2> QED BY <2>1, <2>2 DEF Shaped
<1>3. NewIsDirty' BY DEF NewIsDirty, Shaped, Pk, LoadedAs
<1>4. NoUserNoObject' BY DEF NoUserNoObject, Shaped, Pk, LoadedAs
<1>5. Searching' BY DEF Searching, Shaped, KeyMayBeLost
<1>6. CleanIsStored' BY DEF CleanIsStored, Shaped, Pk, LoadedAs
<1>7. SavedAsShown' BY DEF SavedAsShown, Shaped, Pk, ObjectId, LoadedAs
<1>8. GetOrCreateAnswers'
  <2>1. job'[i] = "got" => data'[i]["text"] = "key" BY <1>r DEF LoadedAs
  <2>2. \A j \in Instances \ {i} : job'[j] = job[j] /\ data'[j] = data[j] /\ dirty'[j] = dirty[j]
    BY <1>r DEF Shaped
  <2>3. job'[i] # "raised" OBVIOUS
  <2>4. keyLost => keyLost' BY DEF KeyMayBeLost
  <2> HIDE DEF InstanceInv
  <2> QED BY <2>1, <2>2, <2>3, <2>4 DEF GetOrCreateAnswers, InstanceInv
<1> QED BY <1>1, <1>3, <1>4, <1>5, <1>6, <1>7, <1>8

\* An instance read from the table.
LEMMA LoadKeeps ==
    ASSUME InstanceInv, NEW i \in Instances, NEW k \in DOMAIN stored, NEW fs \in {Fields, {"user"}},
           Load(i, k, fs), KeyMayBeLost
    PROVE  InstanceInv'
<1>1. Unconfigured' BY InstanceAssumption DEF InstanceInv, Unconfigured, Load, Step, Loaded
<1>2. job' = job /\ job[i] = "none" BY DEF Load, Free
<1>3. Loaded(i, k, fs) /\ UNCHANGED <<meta, stored, parentId>> BY DEF Load
<1> QED BY <1>1, <1>2, <1>3, LoadedKeeps

\* The search of get_or_create() that finds no row.
LEMMA NotFoundKeeps ==
    ASSUME InstanceInv, NEW i \in Instances, NEW next,
           data[i] = Unused, job' = [job EXCEPT ![i] = next],
           next = "create" \/ (next = "raised" /\ keyLost),
           UNCHANGED <<meta, stored, parentId, data, dirty, rel, foreign, outcome>>, Unconfigured',
           KeyMayBeLost
    PROVE  InstanceInv'
<1> USE InstanceInv DEF InstanceInv
<1>1. Shaped' BY DEF Shaped
<1>3. NewIsDirty' BY DEF NewIsDirty, Shaped, Pk
<1>4. NoUserNoObject' BY DEF NoUserNoObject, Shaped, Pk
<1>5. Searching' BY DEF Searching, Shaped, KeyMayBeLost
<1>6. CleanIsStored' BY DEF CleanIsStored, Shaped, Pk
<1>7. SavedAsShown' BY DEF SavedAsShown, Shaped, Pk, ObjectId
<1>8. GetOrCreateAnswers' BY DEF GetOrCreateAnswers, Shaped, KeyMayBeLost
<1> QED BY <1>1, <1>3, <1>4, <1>5, <1>6, <1>7, <1>8

\* Assigning an object.
LEMMA SetUserKeeps ==
    ASSUME InstanceInv, NEW i \in Instances, NEW p \in Parents, SetUser(i, p), KeyMayBeLost
    PROVE  InstanceInv'
<1> USE InstanceInv, InstanceAssumption DEF InstanceInv, Step, Free, SetUser
<1>1. Shaped' BY DEF Shaped, Put, Only, Fields
<1>2. Unconfigured' BY DEF Unconfigured, Shaped, Step
<1>3. NewIsDirty' BY DEF NewIsDirty, Shaped, Pk, ValueOf, Put, Only
<1>4. NoUserNoObject' BY DEF NoUserNoObject, Shaped, Pk, ValueOf, Put, Only
<1>5. Searching' BY DEF Searching, Shaped, KeyMayBeLost
<1>6. CleanIsStored' BY DEF CleanIsStored, Shaped, Pk, ValueOf, Put, Only
<1>7. SavedAsShown' BY DEF SavedAsShown, Shaped, Pk, ValueOf, Put, Only, ObjectId
<1>8. GetOrCreateAnswers' BY DEF GetOrCreateAnswers, Shaped, Put, KeyMayBeLost
<1> QED BY <1>1, <1>2, <1>3, <1>4, <1>5, <1>6, <1>7, <1>8 DEF InstanceInv

\* Assigning an id.
LEMMA SetUserIdKeeps ==
    ASSUME InstanceInv, NEW i \in Instances, NEW v, SetUserId(i, v), KeyMayBeLost
    PROVE  InstanceInv'
<1> USE InstanceInv, InstanceAssumption DEF InstanceInv, Step, Free, SetUserId, KeptObject
<1>1. Shaped' BY DEF Shaped, Put, Only, Fields
<1>2. Unconfigured' BY DEF Unconfigured, Shaped, Step
<1>3. NewIsDirty' BY DEF NewIsDirty, Shaped, Pk, ValueOf, Put, Only
<1>4. NoUserNoObject' BY DEF NoUserNoObject, Shaped, Pk, ValueOf, Put, Only
<1>5. Searching' BY DEF Searching, Shaped, KeyMayBeLost
<1>6. CleanIsStored' BY DEF CleanIsStored, Shaped, Pk, ValueOf, Put, Only
<1>7. SavedAsShown' BY DEF SavedAsShown, Shaped, Pk, ValueOf, Put, Only, ObjectId
<1>8. GetOrCreateAnswers' BY DEF GetOrCreateAnswers, Shaped, Put, KeyMayBeLost
<1> QED BY <1>1, <1>2, <1>3, <1>4, <1>5, <1>6, <1>7, <1>8 DEF InstanceInv

\* Reading the object.
LEMMA GetUserKeeps ==
    ASSUME InstanceInv, NEW i \in Instances, GetUser(i), KeyMayBeLost
    PROVE  InstanceInv'
<1> USE InstanceInv, InstanceAssumption DEF InstanceInv, Step, Free, GetUser
<1>1. Shaped' BY DEF Shaped, Put, Only, Fields
<1>2. Unconfigured' BY DEF Unconfigured, Shaped, Step
<1>3. NewIsDirty' BY DEF NewIsDirty, Shaped, Pk, ValueOf, Put, Only
<1>4. NoUserNoObject' BY DEF NoUserNoObject, Shaped, Pk, ValueOf, Put, Only
<1>5. Searching' BY DEF Searching, Shaped, KeyMayBeLost
<1>6. CleanIsStored' BY DEF CleanIsStored, Shaped, Pk, ValueOf, Put, Only
<1>7. SavedAsShown' BY DEF SavedAsShown, Shaped, Pk, ValueOf, Put, Only, ObjectId
<1>8. GetOrCreateAnswers' BY DEF GetOrCreateAnswers, Shaped, Put, KeyMayBeLost
<1> QED BY <1>1, <1>2, <1>3, <1>4, <1>5, <1>6, <1>7, <1>8 DEF InstanceInv

\* Saving the object.
LEMMA SaveParentKeeps ==
    ASSUME InstanceInv, NEW p \in Parents, SaveParent(p), KeyMayBeLost
    PROVE  InstanceInv'
<1> USE InstanceInv, InstanceAssumption DEF InstanceInv, Step, Free, SaveParent
<1>1. Shaped' BY DEF Shaped, Put, Only, Fields
<1>2. Unconfigured' BY DEF Unconfigured, Shaped, Step
<1>3. NewIsDirty' BY DEF NewIsDirty, Shaped, Pk, ValueOf, Put, Only
<1>4. NoUserNoObject' BY DEF NoUserNoObject, Shaped, Pk, ValueOf, Put, Only
<1>5. Searching' BY DEF Searching, Shaped, KeyMayBeLost
<1>6. CleanIsStored' BY DEF CleanIsStored, Shaped, Pk, ValueOf, Put, Only
<1>7. SavedAsShown' BY DEF SavedAsShown, Shaped, Pk, ValueOf, Put, Only, ObjectId
<1>8. GetOrCreateAnswers' BY DEF GetOrCreateAnswers, Shaped, Put, KeyMayBeLost
<1> QED BY <1>1, <1>2, <1>3, <1>4, <1>5, <1>6, <1>7, <1>8 DEF InstanceInv

\* The objects of bulk_create() get rows of their own.
LEMMA BulkCreateKeeps ==
    ASSUME InstanceInv, NEW i \in Instances, NEW j \in Instances, BulkCreate(i, j), KeyMayBeLost
    PROVE  InstanceInv'
<1> DEFINE id(k) == IF k = i THEN NewId ELSE NewId + 1
           ids == {id(i), id(j)}
           row(k) == [user |-> ObjectId(data[k], rel[k]), text |-> ValueOf(data[k], "text")]
<1>1. /\ i # j /\ Step /\ UNCHANGED <<meta, parentId, rel, job, outcome>>
      /\ \A k \in {i, j} : data[k] # Unused /\ Pk(k) = 0 /\ job[k] = "none" /\ "text" \in DOMAIN data[k]
      /\ ids \subseteq RowIds \ DOMAIN stored
      /\ stored' = [n \in DOMAIN stored \cup ids |->
                      IF n = id(i) THEN row(i) ELSE IF n = id(j) THEN row(j) ELSE stored[n]]
      /\ \/ /\ data' = [k \in Instances |-> IF k \in {i, j} THEN Put(data[k], "id", id(k)) ELSE data[k]]
            /\ dirty' = [k \in Instances |-> IF k \in {i, j} THEN dirty[k] \cup {"id"} ELSE dirty[k]]
         \/ UNCHANGED <<data, dirty>>
      /\ foreign' = [k \in Instances |-> IF Pk(k) \in ids THEN foreign[k] \cup {"user", "text"} ELSE foreign[k]]
  BY DEF BulkCreate
<1> DEFINE a == id(i)
           b == id(j)
<1>2. /\ a # b /\ a # 0 /\ b # 0 /\ a \in RowIds \ DOMAIN stored /\ b \in RowIds \ DOMAIN stored
  BY <1>1, InstanceAssumption
<1>3. /\ DOMAIN stored' = DOMAIN stored \cup {a, b} /\ stored'[a] = row(i) /\ stored'[b] = row(j)
      /\ \A n \in DOMAIN stored : stored'[n] = stored[n]
  BY <1>1, <1>2
<1>4. \/ /\ data' = [k \in Instances |-> IF k = i THEN Put(data[i], "id", a)
                                         ELSE IF k = j THEN Put(data[j], "id", b) ELSE data[k]]
         /\ dirty' = [k \in Instances |-> IF k \in {i, j} THEN dirty[k] \cup {"id"} ELSE dirty[k]]
      \/ UNCHANGED <<data, dirty>>
  BY <1>1
<1>5. foreign' = [k \in Instances |-> IF Pk(k) \in {a, b} THEN foreign[k] \cup {"user", "text"} ELSE foreign[k]]
  BY <1>1
<1> HIDE DEF id, ids, row, a, b
<1>6. row(i)["user"] = ObjectId(data[i], rel[i]) /\ row(j)["user"] = ObjectId(data[j], rel[j])
      /\ DOMAIN row(i) = {"user", "text"} /\ DOMAIN row(j) = {"user", "text"}
  BY DEF row
<1>7. /\ i # j /\ Step /\ UNCHANGED <<meta, parentId, rel, job, outcome>>
      /\ \A k \in {i, j} : data[k] # Unused /\ Pk(k) = 0 /\ job[k] = "none" /\ "text" \in DOMAIN data[k]
  BY <1>1
<1> USE InstanceInv, <1>2, <1>3, <1>4, <1>5, <1>6, <1>7 DEF InstanceInv, Step
<1>11. Shaped' BY DEF Shaped, Put, Fields
<1>12. Unconfigured' BY InstanceAssumption DEF Unconfigured, Shaped
<1>13. NewIsDirty' BY DEF NewIsDirty, Shaped, Pk, ValueOf, Put
<1>14. NoUserNoObject' BY DEF NoUserNoObject, Shaped, Pk, ValueOf, Put, ObjectId
<1>8. \A k \in Instances : job[k] # "none" => data'[k] = data[k] /\ dirty'[k] = dirty[k]
  BY DEF Shaped
<1>15. Searching' BY <1>8 DEF Searching, Shaped, KeyMayBeLost
<1>16. CleanIsStored'
  <2> SUFFICES ASSUME NEW k \in Instances, Pk(k)' \in DOMAIN stored',
                      NEW f \in DOMAIN data'[k] \ (dirty'[k] \cup foreign'[k] \cup {"id"})
               PROVE  stored'[Pk(k)'][f] = data'[k][f]
    BY DEF CleanIsStored
  <2>1. CASE k \in {i, j}
    <3>1. DOMAIN data[k] \subseteq dirty[k] BY <2>1 DEF NewIsDirty
    <3>2. DOMAIN data'[k] \subseteq DOMAIN data[k] \cup {"id"} /\ dirty[k] \subseteq dirty'[k]
      BY <2>1 DEF Shaped, Put
    <3> QED BY <3>1, <3>2
  <2>2. CASE k \notin {i, j}
    <3>1. data'[k] = data[k] /\ dirty'[k] = dirty[k] /\ Pk(k)' = Pk(k) BY <2>2 DEF Shaped, Pk
    <3>2. f \in {"user", "text"} BY <3>1 DEF Shaped, Fields
    <3>3. Pk(k) \notin {a, b} /\ foreign'[k] = foreign[k] BY <3>2
    <3>4. Pk(k) \in DOMAIN stored /\ stored'[Pk(k)] = stored[Pk(k)] BY <3>1, <3>3
    <3> QED BY <3>1, <3>3, <3>4 DEF CleanIsStored
  <2> QED BY <2>1, <2>2
<1>17. SavedAsShown'
  <2> SUFFICES ASSUME NEW k \in Instances PROVE Shows(k)' BY ShowsAll
  <2>0. Shows(k) BY ShowsAll
  <2>1. ValueOf(data'[k], "user") = ValueOf(data[k], "user") BY DEF Shaped, ValueOf, Put
  <2>2. CASE Pk(k)' \in {a, b}
    <3>1. "user" \notin foreign'[k] => Pk(k) \notin {a, b} OBVIOUS
    <3>2. k \notin {i, j} => Pk(k)' = Pk(k) BY DEF Shaped, Pk
    <3>3. /\ k = i /\ Pk(k)' # Pk(k) => Pk(k)' = a
          /\ k = j /\ Pk(k)' # Pk(k) => Pk(k)' = b
      BY DEF Shaped, Pk, ValueOf, Put
    <3>4. "user" \notin foreign'[k] => stored'[Pk(k)'].user = ObjectId(data[k], rel[k])
      BY <2>2, <3>1, <3>2, <3>3
    <3> QED BY <2>0, <2>1, <3>4 DEF Shows, ObjectId
  <2>3. CASE Pk(k)' \notin {a, b}
    <3>1. Pk(k)' \in DOMAIN stored' => Pk(k)' # 0 /\ Pk(k)' \in DOMAIN stored /\ stored'[Pk(k)'] = stored[Pk(k)']
      BY <2>3, InstanceAssumption DEF Shaped
    <3>2. Pk(k)' = Pk(k) BY <2>3 DEF Shaped, Pk, ValueOf, Put
    <3>3. foreign'[k] = foreign[k] BY <2>3, <3>2
    <3> QED BY <2>0, <2>1, <3>1, <3>2, <3>3 DEF Shows, ObjectId
  <2> QED BY <2>2, <2>3
<1>18. GetOrCreateAnswers'
  <2>1. job' = job /\ job[i] = "none" /\ job[j] = "none" BY <1>1
  <2>2. \A k \in Instances \ {i, j} : data'[k] = data[k] /\ dirty'[k] = dirty[k]
    BY <1>1 DEF Shaped
  <2>3. keyLost => keyLost' BY DEF KeyMayBeLost
  <2>4. GetOrCreateAnswers OBVIOUS
  <2> HIDE DEF InstanceInv
  <2> QED BY <2>1, <2>2, <2>3, <2>4 DEF GetOrCreateAnswers
<1> QED BY <1>11, <1>12, <1>13, <1>14, <1>15, <1>16, <1>17, <1>18

\* bulk_update()
LEMMA BulkUpdateKeeps ==
    ASSUME InstanceInv, NEW i \in Instances, NEW j \in Instances, BulkUpdate(i, j), KeyMayBeLost
    PROVE  InstanceInv'
<1> USE InstanceInv, InstanceAssumption DEF InstanceInv, Step, Free, BulkUpdate
<1>1. Shaped' BY DEF Shaped, Put, Only, Fields
<1>2. Unconfigured' BY DEF Unconfigured, Shaped, Step
<1>3. NewIsDirty' BY DEF NewIsDirty, Shaped, Pk, ValueOf, Put, Only
<1>4. NoUserNoObject' BY DEF NoUserNoObject, Shaped, Pk, ValueOf, Put, Only
<1>5. Searching' BY DEF Searching, Shaped, KeyMayBeLost
<1>6. CleanIsStored'
  <2> SUFFICES ASSUME NEW k \in Instances, Pk(k)' \in DOMAIN stored',
                      NEW f \in DOMAIN data'[k] \ (dirty'[k] \cup foreign'[k] \cup {"id"})
               PROVE  stored'[Pk(k)'][f] = data'[k][f]
    BY DEF CleanIsStored
  <2> DEFINE text(n) == IF Pk(i) = n THEN ValueOf(data[i], "text") ELSE ValueOf(data[j], "text")
  <2>1. Pk(k)' = Pk(k) /\ data'[k] = data[k] /\ dirty'[k] = dirty[k] /\ Pk(k) \in DOMAIN stored
    BY DEF Pk
  <2>2. stored' = [n \in DOMAIN stored |-> IF n \in {Pk(i), Pk(j)} THEN [stored[n] EXCEPT !.text = text(n)] ELSE stored[n]]
    OBVIOUS
  <2>3. foreign'[k] = IF Pk(k) \in {Pk(i), Pk(j)} /\ ValueOf(data[k], "text") # text(Pk(k))
                      THEN foreign[k] \cup {"text"} ELSE foreign[k]
    OBVIOUS
  <2>4. stored[Pk(k)][f] = data[k][f] BY <2>1, <2>3 DEF CleanIsStored
  <2>5. f = "text" /\ Pk(k) \in {Pk(i), Pk(j)} => data[k][f] = text(Pk(k))
    BY <2>1, <2>3 DEF ValueOf
  <2>6. DOMAIN stored[Pk(k)] = {"user", "text"} /\ f \in {"user", "text"} BY <2>1 DEF Shaped, Fields
  <2>7. Pk(k) \in {Pk(i), Pk(j)} => stored'[Pk(k)] = [stored[Pk(k)] EXCEPT !.text = text(Pk(k))]
    BY <2>1, <2>2
  <2>8. Pk(k) \notin {Pk(i), Pk(j)} => stored'[Pk(k)] = stored[Pk(k)]
    BY <2>1, <2>2
  <2> QED BY <2>1, <2>4, <2>5, <2>6, <2>7, <2>8
<1>7. SavedAsShown' BY DEF SavedAsShown, Shaped, Pk, ValueOf, Put, Only, ObjectId
<1>8. GetOrCreateAnswers' BY DEF GetOrCreateAnswers, Shaped, Put, KeyMayBeLost
<1> QED BY <1>1, <1>2, <1>3, <1>4, <1>5, <1>6, <1>7, <1>8 DEF InstanceInv

\* delete_instance()
LEMMA DeleteInstanceKeeps ==
    ASSUME InstanceInv, NEW i \in Instances, DeleteInstance(i), KeyMayBeLost
    PROVE  InstanceInv'
<1> USE InstanceInv, InstanceAssumption DEF InstanceInv, Step, Free, DeleteInstance
<1>1. Shaped' BY DEF Shaped, Put, Only, Fields
<1>2. Unconfigured' BY DEF Unconfigured, Shaped, Step
<1>3. NewIsDirty' BY DEF NewIsDirty, Shaped, Pk, ValueOf, Put, Only
<1>4. NoUserNoObject' BY DEF NoUserNoObject, Shaped, Pk, ValueOf, Put, Only
<1>5. Searching' BY DEF Searching, Shaped, KeyMayBeLost
<1>6. CleanIsStored' BY DEF CleanIsStored, Shaped, Pk, ValueOf, Put, Only
<1>7. SavedAsShown' BY DEF SavedAsShown, Shaped, Pk, ValueOf, Put, Only, ObjectId
<1>8. GetOrCreateAnswers' BY DEF GetOrCreateAnswers, Shaped, Put, KeyMayBeLost
<1> QED BY <1>1, <1>2, <1>3, <1>4, <1>5, <1>6, <1>7, <1>8 DEF InstanceInv

\* get_or_create() searches, and will create what it did not find.
LEMMA GetOrCreateKeeps ==
    ASSUME InstanceInv, NEW i \in Instances, NEW v, GetOrCreate(i, v), KeyMayBeLost
    PROVE  InstanceInv'
<1>1. Free(i) /\ v = "key" /\ UNCHANGED <<meta, stored, parentId>> /\ Search(i, v, "got", "create")
  BY DEF GetOrCreate
<1>2. Unconfigured'
  <2>1. steps \in Int /\ steps <= Steps /\ steps' = steps - 1 BY DEF GetOrCreate, Step, InstanceInv, Unconfigured
  <2> QED BY <2>1, InstanceAssumption DEF Unconfigured
<1>3. CASE {k \in DOMAIN stored : stored[k].text = v} # {}
  <2>1. PICK k \in DOMAIN stored : stored[k].text = "key" /\ Loaded(i, k, Fields)
    BY <1>1, <1>3 DEF Search
  <2>2. job' = [job EXCEPT ![i] = "got"] BY <1>1, <1>3 DEF Search
  <2> QED BY <1>1, <1>2, <2>1, <2>2, LoadedKeeps
<1>4. CASE {k \in DOMAIN stored : stored[k].text = v} = {}
  <2>1. job' = [job EXCEPT ![i] = "create"] /\ UNCHANGED <<data, dirty, rel, foreign, outcome>>
    BY <1>1, <1>4 DEF Search
  <2> QED BY <1>1, <1>2, <2>1, NotFoundKeeps DEF Free
<1> QED BY <1>3, <1>4

\* create()
LEMMA CreateKeeps ==
    ASSUME InstanceInv, NEW i \in Instances, Create(i), KeyMayBeLost
    PROVE  InstanceInv'
<1> USE InstanceInv, InstanceAssumption DEF InstanceInv, Step, Free, Create, Touched, Allowed
<1>1. Shaped' BY DEF Shaped, Put, Only, Fields
<1>2. Unconfigured' BY DEF Unconfigured, Shaped, Step
<1>3. NewIsDirty' BY DEF NewIsDirty, Shaped, Pk, ValueOf, Put, Only
<1>4. NoUserNoObject' BY DEF NoUserNoObject, Shaped, Pk, ValueOf, Put, Only
<1>5. Searching' BY DEF Searching, Shaped, KeyMayBeLost
<1> DEFINE row == [user |-> 1, text |-> "key"]
<1>c. \/ /\ UNCHANGED <<stored, data, foreign>>
      \/ /\ NewId \in RowIds \ DOMAIN stored /\ NewId # 0
         /\ DOMAIN stored' = DOMAIN stored \cup {NewId} /\ stored'[NewId] = row
         /\ \A n \in DOMAIN stored : stored'[n] = stored[n]
         /\ data' = [data EXCEPT ![i] = [id |-> NewId, user |-> 1, text |-> "key"]]
         /\ foreign' = [k \in Instances |-> IF k = i THEN foreign[k] \ {"user", "text"}
                           ELSE IF Pk(k) = NewId THEN foreign[k] \cup {"user", "text"} ELSE foreign[k]]
  OBVIOUS
<1>6. CleanIsStored'
  <2> SUFFICES ASSUME NEW k \in Instances, Pk(k)' \in DOMAIN stored',
                      NEW f \in DOMAIN data'[k] \ (dirty'[k] \cup foreign'[k] \cup {"id"})
               PROVE  stored'[Pk(k)'][f] = data'[k][f]
    BY DEF CleanIsStored
  <2>1. CASE UNCHANGED <<stored, data, foreign>> BY <2>1 DEF CleanIsStored, Pk
  <2>2. CASE k = i /\ ~UNCHANGED <<stored, data, foreign>>
    <3>1. data'[k] = [id |-> NewId, user |-> 1, text |-> "key"] BY <1>c, <2>2 DEF Shaped
    <3>2. Pk(k)' = NewId /\ f \in {"user", "text"} BY <3>1 DEF Pk, ValueOf
    <3> QED BY <1>c, <2>2, <3>1, <3>2
  <2>3. CASE k # i /\ ~UNCHANGED <<stored, data, foreign>>
    <3>1. data'[k] = data[k] /\ dirty'[k] = dirty[k] /\ Pk(k)' = Pk(k) BY <1>c, <2>3 DEF Shaped, Pk
    <3>2. f \in {"user", "text"} BY <3>1 DEF Shaped, Fields
    <3>3. Pk(k) # NewId /\ foreign'[k] = foreign[k] BY <1>c, <2>3, <3>2
    <3>4. Pk(k) \in DOMAIN stored /\ stored'[Pk(k)] = stored[Pk(k)] BY <1>c, <2>3, <3>1, <3>3
    <3> QED BY <3>1, <3>3, <3>4 DEF CleanIsStored
  <2> QED BY <2>1, <2>2, <2>3
<1>7. SavedAsShown'
  <2>1. CASE UNCHANGED <<stored, data, foreign>> BY <2>1 DEF SavedAsShown, Pk, ObjectId
  <2>2. CASE ~UNCHANGED <<stored, data, foreign>>
    <3> SUFFICES ASSUME NEW k \in Instances PROVE Shows(k)' BY ShowsAll
    <3>1. CASE k = i
      <4>1. rel[i] = <<>> BY DEF Searching, NoUserNoObject, Unused
      <4>2. data'[k] = [id |-> NewId, user |-> 1, text |-> "key"] BY <1>c, <2>2, <3>1 DEF Shaped
      <4>3. Pk(k)' = NewId /\ ValueOf(data'[k], "user") = 1 BY <4>2 DEF Pk, ValueOf
      <4> QED BY <1>c, <2>2, <3>1, <4>1, <4>3 DEF Shows, ObjectId
    <3>2. CASE k # i
      <4>1. data'[k] = data[k] /\ Pk(k)' = Pk(k) BY <1>c, <2>2, <3>2 DEF Shaped, Pk
      <4>2. "user" \notin foreign'[k] => Pk(k) # NewId /\ foreign'[k] = foreign[k] BY <1>c, <2>2, <3>2
      <4>3. Pk(k) \in DOMAIN stored => stored'[Pk(k)] = stored[Pk(k)] BY <1>c, <2>2
      <4>4. Pk(k) # NewId /\ Pk(k) \in DOMAIN stored' => Pk(k) \in DOMAIN stored BY <1>c, <2>2
      <4> QED BY <4>1, <4>2, <4>3, <4>4 DEF Shows, SavedAsShown, ObjectId
    <3> QED BY <3>1, <3>2
  <2> QED BY <2>1, <2>2
<1>8. GetOrCreateAnswers'
  <2>1. job'[i] \in {"created", "again"} /\ DOMAIN job' = Instances BY DEF Shaped
  <2>2. \A k \in Instances \ {i} : job'[k] = job[k] /\ data'[k] = data[k] /\ dirty'[k] = dirty[k]
    BY <1>c DEF Shaped
  <2>3. keyLost => keyLost' BY DEF KeyMayBeLost
  <2>4. GetOrCreateAnswers OBVIOUS
  <2> QED BY <2>1, <2>2, <2>3, <2>4 DEF GetOrCreateAnswers
<1> QED BY <1>1, <1>2, <1>3, <1>4, <1>5, <1>6, <1>7, <1>8 DEF InstanceInv

\* get_or_create() searches again, and raises the error if it does not find the row.
LEMMA GetAgainKeeps ==
    ASSUME InstanceInv, NEW i \in Instances, GetAgain(i), KeyMayBeLost
    PROVE  InstanceInv'
<1>1. /\ job[i] = "again" /\ UNCHANGED <<meta, stored, parentId, steps>>
      /\ Search(i, "key", "got", "raised")
  BY DEF GetAgain
<1>2. steps \in Int /\ steps # Steps + 1 BY <1>1 DEF InstanceInv, Unconfigured
<1>3. Unconfigured' BY <1>1, <1>2 DEF Unconfigured
<1>4. data[i] = Unused /\ (keyLost \/ \E k \in DOMAIN stored : stored[k].text = "key")
  BY <1>1 DEF InstanceInv, Searching
<1>5. CASE {k \in DOMAIN stored : stored[k].text = "key"} # {}
  <2>1. PICK k \in DOMAIN stored : stored[k].text = "key" /\ Loaded(i, k, Fields)
    BY <1>1, <1>5 DEF Search
  <2>2. job' = [job EXCEPT ![i] = "got"] BY <1>1, <1>5 DEF Search
  <2> QED BY <1>1, <1>3, <2>1, <2>2, LoadedKeeps
<1>6. CASE {k \in DOMAIN stored : stored[k].text = "key"} = {}
  <2>1. job' = [job EXCEPT ![i] = "raised"] /\ UNCHANGED <<data, dirty, rel, foreign, outcome>>
    BY <1>1, <1>6 DEF Search
  <2>2. \A k \in DOMAIN stored : stored[k].text # "key" BY <1>6
  <2>3. keyLost BY <1>4, <2>2
  <2> QED BY <1>1, <1>3, <1>4, <2>1, <2>3, NotFoundKeeps
<1> QED BY <1>5, <1>6

-----------------------------------------------------------------------------
\* save().  What it is about is a part of the instance, and all of it if every
\* field is saved.
Asked(i, c, only) ==
    /\ DOMAIN c \subseteq DOMAIN data[i] /\ \A f \in DOMAIN c : c[f] = data[i][f]
    /\ only = {} /\ ~meta.onlyDirty => c = data[i]

\* The fields of save() are such a part.
LEMMA ChosenIsAsked ==
    ASSUME NEW i, NEW only, NEW force \in BOOLEAN
    PROVE  /\ Asked(i, Chosen(i, only, force), only)
           /\ meta.onlyDirty /\ ~force /\ only = {} => DOMAIN Chosen(i, only, force) = DOMAIN data[i] \cap dirty[i]
BY DEF Asked, Chosen, Only

\* The instance and the saved fields after a foreign key has taken the id of its object.
Mine(i, c) == IF Late(i, c) THEN Put(data[i], "user", Populated(i, c)["user"]) ELSE data[i]
\* What the two have to do with the instance and with what was asked for.
Completed(i, c, mine, fs) ==
    /\ DOMAIN mine = DOMAIN data[i] /\ DOMAIN fs = DOMAIN c /\ DOMAIN c \subseteq DOMAIN data[i]
    /\ \A f \in DOMAIN fs : fs[f] = mine[f]
    /\ \A f \in DOMAIN data[i] : f # "user" \/ ~Late(i, c) => mine[f] = data[i][f]
    /\ Late(i, c) => "user" \in DOMAIN data[i] /\ mine["user"] = parentId[rel[i][1]] /\ data[i]["user"] = 0

\* They agree with each other, and with the instance before save().
LEMMA MineCompleted ==
    ASSUME NEW i, NEW c, NEW only, Asked(i, c, only)
    PROVE  Completed(i, c, Mine(i, c), Populated(i, c))
BY DEF Asked, Mine, Completed, Populated, Late, Put

\* save() without anything to save.
LEMMA NothingSavedKeeps ==
    ASSUME InstanceInv, NEW i \in Instances, data[i] # Unused, job[i] = "none", Step,
           DOMAIN data[i] \cap dirty[i] = {},
           dirty' = [dirty EXCEPT ![i] = {}], outcome' = [outcome EXCEPT ![i] = "False"],
           UNCHANGED <<stored, data, foreign, meta, parentId, rel, job>>, KeyMayBeLost
    PROVE  InstanceInv'
<1> USE InstanceInv, InstanceAssumption DEF InstanceInv, Step
<1>1. Shaped' BY DEF Shaped
<1>2. Unconfigured' BY DEF Unconfigured, Shaped
<1>3. NewIsDirty' BY DEF NewIsDirty, Shaped, Pk
<1>4. NoUserNoObject' BY DEF NoUserNoObject, Shaped, Pk
<1>5. Searching' BY DEF Searching, Shaped, KeyMayBeLost
<1>6. CleanIsStored' BY DEF CleanIsStored, Shaped, Pk
<1>7. SavedAsShown' BY DEF SavedAsShown, Shaped, Pk, ObjectId
<1>8. GetOrCreateAnswers' BY DEF GetOrCreateAnswers, Shaped, KeyMayBeLost
<1> QED BY <1>1, <1>2, <1>3, <1>4, <1>5, <1>6, <1>7, <1>8

\* save() that the database refuses.
LEMMA RefusedKeeps ==
    ASSUME InstanceInv, NEW i \in Instances, job[i] = "none", Step,
           NEW c, NEW mine, NEW fs, Completed(i, c, mine, fs),
           data' = [data EXCEPT ![i] = mine], outcome' = [outcome EXCEPT ![i] = "error"],
           dirty' = [dirty EXCEPT ![i] = IF Late(i, c) THEN @ \cup {"user"} ELSE @],
           UNCHANGED <<stored, foreign, meta, parentId, rel, job>>, KeyMayBeLost
    PROVE  InstanceInv'
<1> USE InstanceInv, InstanceAssumption DEF InstanceInv, Step
<1>0. /\ DOMAIN data' = Instances /\ data'[i] = mine /\ DOMAIN mine = DOMAIN data[i]
      /\ \A j \in Instances \ {i} : data'[j] = data[j] /\ dirty'[j] = dirty[j] /\ outcome'[j] = outcome[j]
      /\ \A j \in Instances : DOMAIN data'[j] = DOMAIN data[j] /\ Pk(j)' = Pk(j)
      /\ outcome'[i] = "error" /\ dirty[i] \subseteq dirty'[i]
  BY DEF Shaped, Completed, Pk, ValueOf
<1>1. Shaped' BY <1>0 DEF Shaped
<1>2. Unconfigured' BY DEF Unconfigured, Shaped
<1>3. NewIsDirty' BY <1>0 DEF NewIsDirty
<1>4. NoUserNoObject' BY <1>0 DEF NoUserNoObject
<1>5. Searching' BY <1>0 DEF Searching, Shaped, KeyMayBeLost
<1>6. CleanIsStored' BY <1>0 DEF CleanIsStored, Shaped, Completed
<1>7. SavedAsShown' BY <1>0 DEF SavedAsShown, Shaped, ObjectId, Completed, ValueOf
<1>8. GetOrCreateAnswers' BY <1>0 DEF GetOrCreateAnswers, Shaped, KeyMayBeLost
<1> QED BY <1>1, <1>2, <1>3, <1>4, <1>5, <1>6, <1>7, <1>8

\* save() that changes row id to what fs says, be it new or not: new, in what else
\* it says, is foreign to the instance.
Changed(i, id, fs, mine, new, all) ==
    /\ id # 0 /\ (new => id \in RowIds)
    /\ DOMAIN stored' = IF new THEN DOMAIN stored \cup {id} ELSE DOMAIN stored
    /\ \A k \in DOMAIN stored \ {id} : stored'[k] = stored[k]
    /\ id \in DOMAIN stored' =>
         /\ DOMAIN stored'[id] = {"user", "text"}
         /\ \A f \in DOMAIN fs \cap {"user", "text"} : stored'[id][f] = fs[f]
         /\ \A f \in {"user", "text"} \ DOMAIN fs : ~new => stored'[id][f] = stored[id][f]
    /\ DOMAIN data' = Instances /\ DOMAIN dirty' = Instances
    /\ DOMAIN foreign' = Instances /\ DOMAIN outcome' = Instances
    /\ DOMAIN data'[i] \ {"id"} = DOMAIN mine \ {"id"} /\ \A f \in DOMAIN mine \ {"id"} : data'[i][f] = mine[f]
    /\ ValueOf(data'[i], "id") = id
    /\ dirty[i] \ DOMAIN fs \subseteq dirty'[i] \cup {"id"}
    /\ IF new THEN {"user", "text"} \ DOMAIN fs \subseteq foreign'[i]
              ELSE foreign[i] \ DOMAIN fs \subseteq foreign'[i] /\ Pk(i) = id
    /\ outcome'[i] \in {"saved", "part"} /\ (outcome'[i] = "saved" => all)
    /\ \A j \in Instances \ {i} :
         /\ data'[j] = data[j] /\ dirty'[j] = dirty[j] /\ outcome'[j] = outcome[j]
         /\ foreign[j] \subseteq foreign'[j]
         /\ Pk(j) = id => (IF new THEN {"user", "text"} ELSE DOMAIN fs \cap {"user", "text"}) \subseteq foreign'[j]

\* After it, the instances show what the table has.
LEMMA ChangedKeeps ==
    ASSUME InstanceInv, NEW i \in Instances, job[i] = "none", Step,
           NEW only, NEW c, Asked(i, c, only), NEW mine, NEW fs, Completed(i, c, mine, fs),
           NEW id, NEW new \in BOOLEAN, Changed(i, id, fs, mine, new, only = {}),
           UNCHANGED <<meta, parentId, rel, job>>, KeyMayBeLost
    PROVE  InstanceInv'
<1> USE InstanceInv, InstanceAssumption DEF InstanceInv, Step
<1>0. /\ Pk(i)' = id /\ DOMAIN data'[i] \subseteq Fields /\ DOMAIN data[i] \subseteq Fields
      /\ \A j \in Instances \ {i} : Pk(j)' = Pk(j) /\ data'[j] = data[j] /\ dirty'[j] = dirty[j]
      /\ \A f \in {"user", "text"} : f \in DOMAIN data'[i] <=> f \in DOMAIN data[i]
  BY DEF Changed, Shaped, Completed, Pk, Fields
<1>1. Shaped' BY <1>0 DEF Shaped, Changed
<1>2. Unconfigured' BY DEF Unconfigured, Shaped
<1>3. NewIsDirty' BY <1>0 DEF NewIsDirty, Changed
<1>4. NoUserNoObject'
  <2> SUFFICES ASSUME NEW j \in Instances, "user" \notin DOMAIN data'[j]
               PROVE  /\ rel'[j] = <<>>
                      /\ Pk(j)' \in DOMAIN stored' /\ "user" \notin foreign'[j] => stored'[Pk(j)'].user = 0
    BY DEF NoUserNoObject
  <2>1. "user" \notin DOMAIN data[j] /\ rel'[j] = <<>> BY <1>0 DEF NoUserNoObject
  <2>2. CASE j = i BY <1>0, <2>1, <2>2 DEF NoUserNoObject, Changed, Completed
  <2>3. CASE j # i BY <1>0, <2>1, <2>3 DEF NoUserNoObject, Changed, Completed
  <2> QED BY <2>1, <2>2, <2>3
<1>5. Searching' BY <1>0 DEF Searching, Shaped, KeyMayBeLost
<1>6. CleanIsStored'
  <2> SUFFICES ASSUME NEW j \in Instances, Pk(j)' \in DOMAIN stored',
                      NEW f \in DOMAIN data'[j] \ (dirty'[j] \cup foreign'[j] \cup {"id"})
               PROVE  stored'[Pk(j)'][f] = data'[j][f]
    BY DEF CleanIsStored
  <2>1. f \in {"user", "text"} BY <1>0 DEF Shaped, Fields
  <2>2. CASE j = i /\ f \in DOMAIN fs
    BY <1>0, <2>1, <2>2 DEF Changed, Completed
  <2>3. CASE j = i /\ f \notin DOMAIN fs
    <3>1. ~new /\ Pk(i) = id /\ id \in DOMAIN stored /\ f \notin foreign[i] /\ f \notin dirty[i]
      BY <1>0, <2>1, <2>3 DEF Changed
    <3>2. f \in DOMAIN data[i] /\ stored[id][f] = data[i][f] BY <1>0, <2>1, <2>3, <3>1 DEF CleanIsStored
    <3>3. mine[f] = data[i][f]
      <4>1. f = "user" => ~Late(i, c) BY <2>3 DEF Late, Completed
      <4> QED BY <3>2, <4>1 DEF Completed
    <3>4. f \in DOMAIN mine /\ data'[i][f] = mine[f] BY <2>1, <3>2 DEF Changed, Completed
    <3>5. stored'[id][f] = stored[id][f] BY <1>0, <2>1, <2>3, <3>1 DEF Changed
    <3> QED BY <1>0, <2>3, <3>2, <3>3, <3>4, <3>5
  <2>4. CASE j # i
    <3>1. Pk(j) = id => ~new /\ f \notin DOMAIN fs BY <2>1, <2>4 DEF Changed
    <3>2. Pk(j) \in DOMAIN stored /\ stored'[Pk(j)][f] = stored[Pk(j)][f]
      BY <1>0, <2>1, <2>4, <3>1 DEF Changed
    <3>3. f \notin foreign[j] BY <2>4 DEF Changed
    <3> QED BY <1>0, <2>1, <2>4, <3>2, <3>3 DEF CleanIsStored
  <2> QED BY <2>2, <2>3, <2>4
<1>7. SavedAsShown'
  <2> SUFFICES ASSUME NEW j \in Instances PROVE Shows(j)' BY ShowsAll
  <2>0. Shows(j) BY ShowsAll
  <2>1. CASE j = i
    <3>1. rel[i] # <<>> => "user" \in DOMAIN data[i] BY DEF NoUserNoObject
    <3>2. "user" \in DOMAIN data[i] =>
            ValueOf(data[i], "user") = data[i]["user"] /\ ValueOf(data'[i], "user") = mine["user"]
      BY <1>0 DEF ValueOf, Changed, Completed
    <3>3. rel'[i] # <<>> => ValueOf(data'[i], "user") \in {0, parentId'[rel'[i][1]]}
      BY <2>0, <2>1, <3>1, <3>2 DEF Shows, Completed
    <3>4. ASSUME outcome'[i] = "saved", ~meta'.onlyDirty, "user" \notin foreign'[i], id \in DOMAIN stored'
          PROVE  stored'[id].user = ObjectId(data[i], rel[i])'
      <4>1. c = data[i] BY <3>4 DEF Asked, Changed
      <4>2. CASE "user" \in DOMAIN data[i]
        <5>1. stored'[id]["user"] = mine["user"] BY <3>4, <4>1, <4>2 DEF Changed, Completed
        <5>2. rel[i] # <<>> /\ mine["user"] = 0 => parentId[rel[i][1]] = 0
          BY <4>1, <4>2 DEF Late, Completed
        <5> QED BY <3>2, <4>2, <5>1, <5>2 DEF ObjectId
      <4>3. CASE "user" \notin DOMAIN data[i]
        <5>1. rel[i] = <<>> /\ ValueOf(data'[i], "user") = 0 BY <1>0, <4>3 DEF NoUserNoObject, ValueOf
        <5>2. stored'[id].user = 0 BY <1>0, <1>4, <3>4, <4>3 DEF NoUserNoObject
        <5> QED BY <5>1, <5>2 DEF ObjectId
      <4> QED BY <4>2, <4>3
    <3> QED BY <1>0, <2>1, <3>3, <3>4 DEF Shows
  <2>2. CASE j # i
    <3>1. Pk(j)' = Pk(j) /\ data'[j] = data[j] /\ outcome'[j] = outcome[j] BY <1>0, <2>2 DEF Changed
    <3>2. "user" \notin foreign'[j] => "user" \notin foreign[j] BY <2>2 DEF Changed
    <3>3. "user" \notin foreign'[j] /\ Pk(j) \in DOMAIN stored' =>
            Pk(j) \in DOMAIN stored /\ stored'[Pk(j)]["user"] = stored[Pk(j)]["user"]
      BY <2>2 DEF Changed
    <3> QED BY <2>0, <3>1, <3>2, <3>3 DEF Shows, ObjectId
  <2> QED BY <2>1, <2>2
<1>8. GetOrCreateAnswers' BY <1>0 DEF GetOrCreateAnswers, Shaped, KeyMayBeLost
<1> QED BY <1>1, <1>2, <1>3, <1>4, <1>5, <1>6, <1>7, <1>8

\* save() of an instance.
LEMMA SaveKeeps ==
    ASSUME InstanceInv, NEW i \in Instances, NEW only, NEW force \in BOOLEAN, Save(i, only, force), KeyMayBeLost
    PROVE  InstanceInv'
<1> DEFINE c == Chosen(i, only, force)
           fs == Populated(i, c)
           mine == Mine(i, c)
           columns == Only(fs, {"user", "text"})
           id == IF Pk(i) = 0 THEN NewId ELSE Pk(i)
           Nothing == meta.onlyDirty /\ ~force /\ only = {} /\ c = Unused
           Updates == Pk(i) # 0 /\ ~force
<1>1. /\ data[i] # Unused /\ job[i] = "none" /\ Step /\ UNCHANGED <<meta, parentId, rel, job>>
  BY DEF Save
<1>2. Asked(i, c, only) BY ChosenIsAsked
<1>3. Completed(i, c, mine, fs) BY <1>2, MineCompleted
<1>4. (IF Late(i, c) THEN Put(data[i], "user", fs["user"]) ELSE data[i]) = mine BY DEF Mine
<1>5. CASE Nothing
  <2>1. DOMAIN data[i] \cap dirty[i] = {}
    <3>1. DOMAIN c = DOMAIN data[i] \cap dirty[i] BY <1>5, ChosenIsAsked
    <3> QED BY <1>5, <3>1 DEF Unused
  <2>2. /\ dirty' = [dirty EXCEPT ![i] = {}] /\ outcome' = [outcome EXCEPT ![i] = "False"]
        /\ UNCHANGED <<stored, data, foreign>>
    BY <1>5 DEF Save
  <2> HIDE DEF c, fs, mine, columns, id, Nothing, Updates
  <2> QED BY <1>1, <2>1, <2>2, NothingSavedKeeps
<1> DEFINE Refuses ==
              /\ outcome' = [outcome EXCEPT ![i] = "error"]
              /\ data' = [data EXCEPT ![i] = mine]
              /\ dirty' = [dirty EXCEPT ![i] = IF Late(i, c) THEN @ \cup {"user"} ELSE @]
              /\ UNCHANGED <<stored, foreign>>
           Updated ==
              /\ stored' = [k \in DOMAIN stored |->
                               IF k # Pk(i) THEN stored[k]
                               ELSE [f \in {"user", "text"} |->
                                       IF f \in DOMAIN columns THEN columns[f] ELSE stored[k][f]]]
              /\ foreign' = Touched(i, Pk(i), DOMAIN columns)
              /\ Saved(i, mine, columns)
              /\ outcome' = [outcome EXCEPT ![i] = IF only = {} THEN "saved" ELSE "part"]
           Inserted ==
              /\ id \in RowIds /\ id \notin DOMAIN stored
              /\ stored' = [k \in DOMAIN stored \cup {id} |-> IF k = id THEN Row(fs) ELSE stored[k]]
              /\ Saved(i, Put(mine, "id", id), Put(fs, "id", id))
              /\ foreign' = [Touched(i, id, {"user", "text"}) EXCEPT ![i] = {"user", "text"} \ DOMAIN fs]
              /\ outcome' = [outcome EXCEPT ![i] = IF only = {} THEN "saved" ELSE "part"]
<1>6. CASE ~Nothing
  <2>1. Refuses \/ (Updates /\ Updated) \/ (~Updates /\ Inserted)
    <3>1. CASE Updates BY <1>4, <1>6, <3>1 DEF Save
    <3>2. CASE ~Updates BY <1>4, <1>6, <3>2 DEF Save
    <3> QED BY <3>1, <3>2
  <2>2. CASE Refuses
    <3>1. Refuses BY <2>2
    <3> HIDE DEF c, fs, mine
    <3> QED BY <1>1, <1>3, <3>1, RefusedKeeps
  <2> HIDE DEF c, fs, mine, Nothing
  <2>3. DOMAIN columns = DOMAIN fs \cap {"user", "text"} /\ \A f \in DOMAIN columns : columns[f] = fs[f]
    BY DEF Only
  <2>4. DOMAIN fs \subseteq Fields /\ DOMAIN fs \subseteq DOMAIN mine BY <1>3 DEF Completed, InstanceInv, Shaped
  <2>5. Pk(i) = ValueOf(mine, "id") BY <1>3 DEF Completed, Pk, ValueOf
  <2>6. CASE Updates /\ Updated
    <3> HIDE DEF columns
    <3>1. Pk(i) # 0 /\ Updated BY <2>6
    <3>2. /\ DOMAIN stored' = DOMAIN stored /\ \A k \in DOMAIN stored \ {Pk(i)} : stored'[k] = stored[k]
          /\ Pk(i) \in DOMAIN stored =>
                /\ DOMAIN stored'[Pk(i)] = {"user", "text"}
                /\ \A f \in DOMAIN fs \cap {"user", "text"} : stored'[Pk(i)][f] = fs[f]
                /\ \A f \in {"user", "text"} \ DOMAIN fs : stored'[Pk(i)][f] = stored[Pk(i)][f]
      BY <3>1, <2>3
    <3>3. /\ DOMAIN data' = Instances /\ DOMAIN dirty' = Instances
          /\ data'[i] = mine /\ dirty'[i] = dirty[i] \ DOMAIN columns
          /\ \A j \in Instances \ {i} : data'[j] = data[j] /\ dirty'[j] = dirty[j]
      BY <3>1 DEF Saved, StillDirty, InstanceInv, Shaped
    <3>4. /\ DOMAIN foreign' = Instances /\ foreign'[i] = foreign[i] \ DOMAIN columns
          /\ \A j \in Instances \ {i} :
               foreign'[j] = IF Pk(j) = Pk(i) THEN foreign[j] \cup DOMAIN columns ELSE foreign[j]
      BY <3>1 DEF Touched
    <3>5. /\ DOMAIN outcome' = Instances /\ outcome'[i] = (IF only = {} THEN "saved" ELSE "part")
          /\ \A j \in Instances \ {i} : outcome'[j] = outcome[j]
      BY <3>1 DEF InstanceInv, Shaped
    <3>6. /\ dirty[i] \ DOMAIN fs \subseteq dirty'[i] \cup {"id"}
          /\ foreign[i] \ DOMAIN fs \subseteq foreign'[i]
          /\ \A j \in Instances \ {i} : foreign[j] \subseteq foreign'[j]
      BY <2>3, <2>4, <3>3, <3>4 DEF Fields
    <3>7. \A j \in Instances \ {i} : Pk(j) = Pk(i) => DOMAIN fs \cap {"user", "text"} \subseteq foreign'[j]
      BY <2>3, <3>4
    <3>8. /\ DOMAIN foreign' = Instances /\ outcome'[i] \in {"saved", "part"}
          /\ outcome'[i] = "saved" => only = {}
      BY <3>4, <3>5
    <3>9. ValueOf(data'[i], "id") = Pk(i) /\ data'[i] = mine BY <2>5, <3>3
    <3>10. Changed(i, Pk(i), fs, mine, FALSE, only = {})
      <4> HIDE DEF Updated
      <4> QED BY <3>1, <3>2, <3>3, <3>5, <3>6, <3>7, <3>8, <3>9 DEF Changed
    <3> QED BY <1>1, <1>2, <1>3, <3>10, ChangedKeeps
  <2>7. CASE ~Updates /\ Inserted
    <3> HIDE DEF columns, id
    <3>1. Inserted BY <2>7
    <3>2. id # 0 BY <3>1, InstanceAssumption
    <3>3. /\ DOMAIN stored' = DOMAIN stored \cup {id} /\ \A k \in DOMAIN stored \ {id} : stored'[k] = stored[k]
          /\ DOMAIN stored'[id] = {"user", "text"}
          /\ \A f \in DOMAIN fs \cap {"user", "text"} : stored'[id][f] = fs[f]
      BY <3>1 DEF Row, ValueOf
    <3>4. /\ DOMAIN data' = Instances /\ DOMAIN dirty' = Instances
          /\ data'[i] = Put(mine, "id", id) /\ dirty'[i] = dirty[i] \ DOMAIN Put(fs, "id", id)
          /\ \A j \in Instances \ {i} : data'[j] = data[j] /\ dirty'[j] = dirty[j]
      BY <3>1 DEF Saved, StillDirty, InstanceInv, Shaped
    <3>5. /\ DOMAIN data'[i] \ {"id"} = DOMAIN mine \ {"id"} /\ ValueOf(data'[i], "id") = id
          /\ \A f \in DOMAIN mine \ {"id"} : data'[i][f] = mine[f]
          /\ dirty[i] \ DOMAIN fs \subseteq dirty'[i] \cup {"id"}
      BY <3>4 DEF Put, ValueOf
    <3>6. /\ DOMAIN foreign' = Instances /\ foreign'[i] = {"user", "text"} \ DOMAIN fs
          /\ \A j \in Instances \ {i} :
               foreign'[j] = IF Pk(j) = id THEN foreign[j] \cup {"user", "text"} ELSE foreign[j]
      BY <3>1 DEF Touched
    <3>7. /\ DOMAIN outcome' = Instances /\ outcome'[i] = (IF only = {} THEN "saved" ELSE "part")
          /\ \A j \in Instances \ {i} : outcome'[j] = outcome[j]
      BY <3>1 DEF InstanceInv, Shaped
    <3>8. id \in RowIds BY <3>1
    <3>9. /\ outcome'[i] \in {"saved", "part"} /\ (outcome'[i] = "saved" => only = {})
          /\ \A j \in Instances \ {i} : foreign[j] \subseteq foreign'[j]
          /\ \A j \in Instances \ {i} : Pk(j) = id => {"user", "text"} \subseteq foreign'[j]
      BY <3>6, <3>7
    <3>10. Changed(i, id, fs, mine, TRUE, only = {})
      <4> HIDE DEF Inserted
      <4> QED BY <3>2, <3>3, <3>4, <3>5, <3>6, <3>7, <3>8, <3>9 DEF Changed
    <3> QED BY <1>1, <1>2, <1>3, <3>10, ChangedKeeps
  <2> QED BY <2>1, <2>2, <2>6, <2>7
<1> QED BY <1>5, <1>6

\* A step that changes nothing.
LEMMA InstanceStutters == InstanceInv /\ UNCHANGED instanceVars => InstanceInv'
<1> SUFFICES ASSUME InstanceInv, UNCHANGED instanceVars PROVE InstanceInv' OBVIOUS
<1> USE DEF InstanceInv, instanceVars
<1>1. Shaped' /\ Unconfigured' BY DEF Shaped, Unconfigured
<1>2. NewIsDirty' /\ NoUserNoObject' BY DEF NewIsDirty, NoUserNoObject, Pk
<1>3. Searching' /\ GetOrCreateAnswers' BY DEF Searching, GetOrCreateAnswers
<1>4. CleanIsStored' BY DEF CleanIsStored, Pk
<1>5. SavedAsShown' BY DEF SavedAsShown, Pk, ObjectId
<1> QED BY <1>1, <1>2, <1>3, <1>4, <1>5

\* Every step of the program keeps the invariant.
LEMMA InstanceSteps == InstanceInv /\ [InstanceNext]_instanceVars => InstanceInv'
<1> SUFFICES ASSUME InstanceInv, InstanceNext PROVE InstanceInv' BY InstanceStutters
<1>1. Op /\ KeyMayBeLost BY DEF InstanceNext, KeyMayBeLost
<1>2. CASE \E o, n, u, r \in BOOLEAN :
             Configure([onlyDirty |-> o, nullable |-> n, unique |-> u, returning |-> r])
  BY <1>1, <1>2, ConfigureKeeps
<1>3. CASE \E p \in Parents : SaveParent(p) BY <1>1, <1>3, SaveParentKeeps
<1>4. ASSUME NEW i \in Instances,
             \/ \E v \in Texts : New(i, v) \/ SetText(i, v) \/ GetOrCreate(i, v)
             \/ \E k \in DOMAIN stored, fs \in {Fields, {"user"}} : Load(i, k, fs)
             \/ \E p \in Parents : SetUser(i, p)
             \/ \E v \in {0, 1} : SetUserId(i, v)
             \/ GetUser(i) \/ DeleteInstance(i) \/ Create(i) \/ GetAgain(i)
             \/ \E only \in {{}, {"text"}}, force \in BOOLEAN : Save(i, only, force)
             \/ \E j \in Instances : BulkCreate(i, j) \/ BulkUpdate(i, j)
      PROVE  InstanceInv'
  <2>1. CASE \E v \in Texts : New(i, v) \/ SetText(i, v) \/ GetOrCreate(i, v)
    BY <1>1, <2>1, NewKeeps, SetTextKeeps, GetOrCreateKeeps
  <2>2. CASE \E k \in DOMAIN stored, fs \in {Fields, {"user"}} : Load(i, k, fs)
    BY <1>1, <2>2, LoadKeeps
  <2>3. CASE \/ \E p \in Parents : SetUser(i, p)
             \/ \E v \in {0, 1} : SetUserId(i, v)
    BY <1>1, <2>3, SetUserKeeps, SetUserIdKeeps
  <2>4. CASE GetUser(i) \/ DeleteInstance(i) \/ Create(i) \/ GetAgain(i)
    BY <1>1, <2>4, GetUserKeeps, DeleteInstanceKeeps, CreateKeeps, GetAgainKeeps
  <2>5. CASE \E only \in {{}, {"text"}}, force \in BOOLEAN : Save(i, only, force)
    BY <1>1, <2>5, SaveKeeps
  <2>6. CASE \E j \in Instances : BulkCreate(i, j) \/ BulkUpdate(i, j)
    BY <1>1, <2>6, BulkCreateKeeps, BulkUpdateKeeps
  <2> QED BY <1>4, <2>1, <2>2, <2>3, <2>4, <2>5, <2>6
<1> QED BY <1>1, <1>2, <1>3, <1>4 DEF Op

\* Instances show what is in the table wherever they do not say that they differ,
\* for any number of instances, rows and operations.
THEOREM InstancesShowTable == InstanceSpec => []InstancesTrue
<1>1. InstanceInv => InstancesTrue BY DEF InstanceInv, InstancesTrue
<1> QED BY <1>1, InstanceStarts, InstanceSteps, PTL DEF InstanceSpec

-----------------------------------------------------------------------------
(***************************************************************************)
(* Retries: what the program is told about its statements.                 *)
(***************************************************************************)

\* Statements are numbered, and what became of them was told of no other.
RetryTyped ==
    /\ count \in Nat /\ left \in Int /\ kept \in Seq(Nat)
    /\ live \in BOOLEAN /\ block \in {"none", "atomic", "retry"}
    /\ ToSet(kept) \cup work \cup issued \cup promised \cup denied \subseteq 0 .. count - 1

\* The server's transaction has what the program was told is done in the block, none
\* of which is done for good or was told to be undone.
RetryInv ==
    /\ RetryTyped
    /\ promised \subseteq ToSet(kept) /\ denied \cap (ToSet(kept) \cup work) = {}
    /\ (work \cup issued) \cap ToSet(kept) = {}
    /\ block = "none" => work = {} /\ issued = {}
    /\ ~live => work = {}
    /\ block # "none" /\ live => issued \subseteq work
    /\ block = "retry" /\ left = 0 => issued = {}

\* The sequence of a finite set has the elements of the set.
LEMMA SetToSeqElements ==
    ASSUME NEW S, IsFiniteSet(S)
    PROVE  ToSet(SetToSeq(S)) = S /\ (S \subseteq Nat => SetToSeq(S) \in Seq(Nat))
<1> DEFINE n == Cardinality(S)
<1>1. n \in Nat /\ ExistsBijection(1 .. n, S) BY FS_CardinalityType
<1>2. PICK g : g \in Bijection(1 .. n, S) BY <1>1 DEF ExistsBijection
<1>3. g \in [1 .. n -> S] /\ IsInjective(g) BY <1>2 DEF Bijection, Injection
<1> DEFINE f == SetToSeq(S)
<1>4. f \in [1 .. n -> S] /\ IsInjective(f) BY <1>3 DEF SetToSeq
<1>5. IsFiniteSet(1 .. n) /\ Cardinality(1 .. n) = n BY <1>1, FS_Interval
<1>6. f \in Injection(1 .. n, S) BY <1>4 DEF Injection
<1>7. f \in Surjection(1 .. n, S) BY <1>5, <1>6, FS_Injection
<1> HIDE DEF f, n
<1>8. \A y \in S : \E x \in 1 .. n : f[x] = y BY <1>7 DEF Surjection
<1>9. ASSUME S \subseteq Nat PROVE f \in Seq(Nat)
  <2>1. f \in [1 .. n -> Nat] BY <1>4, <1>9
  <2> QED BY <1>1, <2>1
<1>10. ToSet(f) = S BY <1>4, <1>8 DEF ToSet
<1> QED BY <1>9, <1>10 DEF f

\* The elements of two sequences after one another, and of one with an element more.
LEMMA ConcatElements ==
    ASSUME NEW s \in Seq(Nat), NEW t \in Seq(Nat)
    PROVE  s \o t \in Seq(Nat) /\ ToSet(s \o t) = ToSet(s) \cup ToSet(t)
<1>1. s \o t \in Seq(Nat) /\ Len(s \o t) = Len(s) + Len(t) OBVIOUS
<1>2. \A i \in 1 .. Len(s) : (s \o t)[i] = s[i] OBVIOUS
<1>3. \A i \in 1 .. Len(t) : Len(s) + i \in 1 .. Len(s) + Len(t) /\ (s \o t)[Len(s) + i] = t[i] OBVIOUS
<1>4. \A i \in 1 .. Len(s) + Len(t) : i \in 1 .. Len(s) \/ (i - Len(s) \in 1 .. Len(t) /\ i = Len(s) + (i - Len(s))) OBVIOUS
<1>5. DOMAIN s = 1 .. Len(s) /\ DOMAIN t = 1 .. Len(t) /\ DOMAIN (s \o t) = 1 .. Len(s) + Len(t)
  BY <1>1
<1>6. ToSet(s) \cup ToSet(t) \subseteq ToSet(s \o t)
  <2>1. Len(s) \in Nat /\ Len(t) \in Nat OBVIOUS
  <2>2. \A i \in 1 .. Len(s) : i \in 1 .. Len(s) + Len(t) BY <2>1
  <2> QED BY <1>2, <1>3, <1>5, <2>2 DEF ToSet
<1>7. ToSet(s \o t) \subseteq ToSet(s) \cup ToSet(t)
  <2> SUFFICES ASSUME NEW i \in 1 .. Len(s) + Len(t) PROVE (s \o t)[i] \in ToSet(s) \cup ToSet(t)
    BY <1>5 DEF ToSet
  <2>1. CASE i \in 1 .. Len(s) BY <1>2, <1>5, <2>1 DEF ToSet
  <2>2. CASE i \notin 1 .. Len(s)
    <3>1. i - Len(s) \in 1 .. Len(t) /\ (s \o t)[i] = t[i - Len(s)] BY <1>3, <1>4, <2>2
    <3> QED BY <1>5, <3>1 DEF ToSet
  <2> QED BY <2>1, <2>2
<1> QED BY <1>1, <1>6, <1>7

\* The elements of a sequence that got one more.
LEMMA AppendElements ==
    ASSUME NEW s \in Seq(Nat), NEW e \in Nat
    PROVE  Append(s, e) \in Seq(Nat) /\ ToSet(Append(s, e)) = ToSet(s) \cup {e}
<1>1. /\ Append(s, e) \in Seq(Nat) /\ Len(Append(s, e)) = Len(s) + 1 /\ Len(s) \in Nat
      /\ \A i \in 1 .. Len(s) : Append(s, e)[i] = s[i]
      /\ Append(s, e)[Len(s) + 1] = e
  OBVIOUS
<1>2. DOMAIN s = 1 .. Len(s) /\ DOMAIN Append(s, e) = 1 .. Len(s) + 1 BY <1>1
<1>3. 1 .. Len(s) + 1 = (1 .. Len(s)) \cup {Len(s) + 1} BY <1>1
<1> QED BY <1>1, <1>2, <1>3 DEF ToSet

\* What one statement makes of the server: done in its transaction, or for good, or
\* lost, with what was open.
After(s, stmt, t, ok) ==
    /\ t.kept \in Seq(Nat) /\ t.live \in BOOLEAN
    /\ ToSet(s.kept) \subseteq ToSet(t.kept)
    /\ ToSet(t.kept) \subseteq ToSet(s.kept) \cup (IF s.txn THEN {} ELSE {stmt})
    /\ t.work \subseteq s.work \cup (IF s.txn THEN {stmt} ELSE {})
    /\ IF ok THEN s.live /\ t.live /\ s.work \subseteq t.work
                  /\ IF s.txn THEN stmt \in t.work ELSE stmt \in ToSet(t.kept)
             ELSE ~t.live /\ (t.work = {} \/ (~s.live /\ t.work = s.work))

\* The states of the server.
Servers == [live : BOOLEAN, work : SUBSET Nat, kept : Seq(Nat), txn : BOOLEAN]

\* A statement that was sent has one of these outcomes.
LEMMA SentAfter ==
    ASSUME NEW s, s \in Servers, NEW stmt \in Nat, NEW r \in Sent(s, stmt)
    PROVE  After(s, stmt, r.s, r.ok) /\ r.ok \in BOOLEAN /\ r.s \in Servers /\ r.s.txn = s.txn
<1>1. /\ Append(s.kept, stmt) \in Seq(Nat)
      /\ ToSet(Append(s.kept, stmt)) = ToSet(s.kept) \cup {stmt}
  BY AppendElements DEF Servers
<1>2. CASE ~s.live
  <2>1. r = [s |-> s, ok |-> FALSE] BY <1>2 DEF Sent
  <2> QED BY <1>2, <2>1 DEF After, Servers
<1>3. CASE s.live
  <2> DEFINE d == Done(s, stmt)
  <2>1. /\ d \in Servers /\ d.txn = s.txn /\ d.live
        /\ IF s.txn THEN d.work = s.work \cup {stmt} /\ d.kept = s.kept
                    ELSE d.work = s.work /\ d.kept = Append(s.kept, stmt)
    BY <1>1, <1>3 DEF Servers, Done
  <2>2. ASSUME NEW t, t \in Servers
        PROVE  Lost(t) \in Servers /\ Lost(t).txn = t.txn /\ Lost(t).work = {} /\ Lost(t).kept = t.kept /\ ~Lost(t).live
    BY <2>2 DEF Servers, Lost
  <2>3. r \in {[s |-> d, ok |-> TRUE], [s |-> Lost(s), ok |-> FALSE], [s |-> Lost(d), ok |-> FALSE]}
    BY <1>3 DEF Sent
  <2> HIDE DEF d
  <2>4. CASE r = [s |-> d, ok |-> TRUE] BY <1>1, <1>3, <2>1, <2>4 DEF After, Servers
  <2>5. CASE r = [s |-> Lost(s), ok |-> FALSE]
    <3>1. r.s = Lost(s) /\ r.ok = FALSE BY <2>5
    <3>2. /\ Lost(s) \in Servers /\ Lost(s).txn = s.txn /\ Lost(s).work = {} /\ Lost(s).kept = s.kept
          /\ ~Lost(s).live /\ s.kept \in Seq(Nat)
      BY <2>2 DEF Servers
    <3> HIDE DEF Lost
    <3>3. After(s, stmt, Lost(s), FALSE) BY <3>2 DEF After, Servers
    <3> QED BY <3>1, <3>2, <3>3
  <2>6. CASE r = [s |-> Lost(d), ok |-> FALSE]
    <3>1. r.s = Lost(d) /\ r.ok = FALSE BY <2>6
    <3>2. /\ Lost(d) \in Servers /\ Lost(d).txn = s.txn /\ Lost(d).work = {} /\ Lost(d).kept = d.kept
          /\ ~Lost(d).live /\ d.kept \in Seq(Nat)
      BY <2>1, <2>2 DEF Servers
    <3>3. After(s, stmt, Lost(d), FALSE) BY <1>1, <2>1, <3>2 DEF After, Servers
    <3> QED BY <3>1, <3>2, <3>3
  <2> QED BY <2>3, <2>4, <2>5, <2>6
<1> QED BY <1>2, <1>3

\* Its outcomes in a transaction, and outside of one, where it may be repeated.
LEMMA ReconnectedAfter ==
    ASSUME RetryInv, NEW r \in Reconnected(Server, count)
    PROVE  /\ r.s.kept \in Seq(Nat) /\ r.s.live \in BOOLEAN /\ ToSet(kept) \subseteq ToSet(r.s.kept)
           /\ block # "none" => After(Server, count, r.s, r.ok)
           /\ block = "none" => ToSet(r.s.kept) \subseteq ToSet(kept) \cup {count} /\ r.s.work = {}
           /\ block = "none" /\ r.ok => count \in ToSet(r.s.kept)
<1>1. /\ Server \in Servers /\ Server.txn = (block # "none") /\ Server.kept = kept /\ Server.work = work
      /\ Server.live = live /\ count \in Nat
  BY DEF RetryInv, RetryTyped, Server, Servers
<1>2. ASSUME NEW q \in Sent(Server, count)
      PROVE  After(Server, count, q.s, q.ok) /\ q.ok \in BOOLEAN /\ q.s \in Servers /\ q.s.txn = (block # "none")
  BY <1>1, <1>2, SentAfter
<1> HIDE DEF Server
<1>3. CASE r \in Sent(Server, count)
  <2>1. After(Server, count, r.s, r.ok) /\ r.s \in Servers BY <1>2, <1>3
  <2>2. block = "none" => work = {} BY DEF RetryInv
  <2> QED BY <1>1, <2>1, <2>2 DEF After, Servers
<1>4. CASE r \notin Sent(Server, count)
  <2>1. PICK q \in Sent(Server, count) :
          MayReconnect /\ r \in Sent([q.s EXCEPT !.live = TRUE, !.txn = FALSE], count)
    BY <1>4 DEF Reconnected
  <2> DEFINE t == [q.s EXCEPT !.live = TRUE, !.txn = FALSE]
  <2>2. After(Server, count, q.s, q.ok) /\ q.s \in Servers BY <1>2
  <2>3. t \in Servers /\ t.txn = FALSE /\ t.kept = q.s.kept /\ t.work = q.s.work BY <2>2 DEF Servers
  <2> HIDE DEF t
  <2>4. After(t, count, r.s, r.ok) BY <1>1, <2>1, <2>3, SentAfter DEF t
  <2>5. block = "none" /\ work = {} BY <2>1 DEF MayReconnect, RetryInv
  <2> QED BY <1>1, <2>2, <2>3, <2>4, <2>5 DEF After
<1> QED BY <1>3, <1>4

\* The ends of a block and of an attempt.
LEMMA CommittedElements ==
    ASSUME RetryInv
    PROVE  /\ Committed(Server).kept \in Seq(Nat) /\ Committed(Server).work = {} /\ Committed(Server).live = live
           /\ ToSet(Committed(Server).kept) = ToSet(kept) \cup work
<1>1. work \subseteq 0 .. count - 1 /\ count \in Nat /\ kept \in Seq(Nat) BY DEF RetryInv, RetryTyped
<1>2. IsFiniteSet(work)
  <2>1. 0 \in Int /\ count - 1 \in Int BY <1>1
  <2>2. IsFiniteSet(0 .. count - 1) BY <2>1, FS_Interval
  <2> QED BY <1>1, <2>2, FS_Subset
<1>3. ToSet(SetToSeq(work)) = work BY <1>2, SetToSeqElements
<1>4. SetToSeq(work) \in Seq(Nat)
  <2>1. work \subseteq Nat BY <1>1
  <2> QED BY <1>2, <2>1, SetToSeqElements
<1>5. /\ Committed(Server).kept = kept \o SetToSeq(work) /\ Committed(Server).work = {}
      /\ Committed(Server).live = live
  BY DEF Committed, Server
<1> QED BY <1>1, <1>3, <1>4, <1>5, ConcatElements

\* There is room for new statements.
LEMMA MoreNumbers == \A a, b \in Nat : a <= b => 0 .. a - 1 \subseteq 0 .. b - 1
OBVIOUS

\* A block ends with what its transaction did, or without.
LEMMA EndsKeeps ==
    ASSUME RetryInv, NEW s, NEW good, NEW bad, Ends(s, good, bad),
           s.kept \in Seq(Nat), s.live \in BOOLEAN, s.work = {}, count' \in Nat, count <= count',
           ToSet(kept) \subseteq ToSet(s.kept), ToSet(s.kept) \subseteq ToSet(kept) \cup work,
           good \subseteq ToSet(s.kept), bad \cap ToSet(s.kept) = {}, bad \subseteq 0 .. count' - 1
    PROVE  RetryInv'
<1>1. /\ kept' = s.kept /\ work' = {} /\ live' = s.live /\ block' = "none" /\ issued' = {} /\ left' = 0
      /\ promised' = promised \cup good /\ denied' = denied \cup bad
  BY DEF Ends, Becomes
<1>2. /\ count \in Nat /\ kept \in Seq(Nat)
      /\ ToSet(kept) \cup work \cup issued \cup promised \cup denied \subseteq 0 .. count - 1
  BY DEF RetryInv, RetryTyped
<1>3. 0 .. count - 1 \subseteq 0 .. count' - 1
  <2>1. count \in Nat /\ count' \in Nat /\ count <= count' BY <1>2
  <2> QED BY <2>1, MoreNumbers
<1>4. ToSet(kept)' \cup work' \cup issued' \cup promised' \cup denied' \subseteq 0 .. count' - 1
  <2>1. ToSet(kept)' \subseteq 0 .. count' - 1 BY <1>1, <1>2, <1>3
  <2>2. denied' \subseteq 0 .. count' - 1 BY <1>1, <1>2, <1>3
  <2>3. promised' \subseteq 0 .. count' - 1 BY <1>1, <1>2, <1>3, <2>1
  <2> QED BY <1>1, <2>1, <2>2, <2>3
<1>5. RetryTyped' BY <1>1, <1>4 DEF RetryTyped
<1> QED BY <1>1, <1>5 DEF RetryInv

\* At first nothing was done.
LEMMA RetryStarts == RetryInit => RetryInv
<1>1. ToSet(<<>>) = {} BY DEF ToSet
<1> QED BY <1>1 DEF RetryInit, RetryInv, RetryTyped

\* A statement, in a block or not.
LEMMA ExecuteKeeps == RetryInv /\ Execute => RetryInv'
<1> SUFFICES ASSUME RetryInv, Execute PROVE RetryInv' OBVIOUS
<1>1. PICK r \in Reconnected(Server, count) :
         /\ Becomes(r.s)
         /\ issued' = IF r.ok /\ block = "atomic" THEN issued \cup {count} ELSE issued
         /\ promised' = IF r.ok /\ block = "none" THEN promised \cup {count} ELSE promised
  BY DEF Execute
<1>2. block # "retry" /\ count' = count + 1 /\ UNCHANGED <<block, left, denied>> BY DEF Execute
<1>3. /\ r.s.kept \in Seq(Nat) /\ r.s.live \in BOOLEAN /\ ToSet(kept) \subseteq ToSet(r.s.kept)
      /\ block # "none" => After(Server, count, r.s, r.ok)
      /\ block = "none" => ToSet(r.s.kept) \subseteq ToSet(kept) \cup {count} /\ r.s.work = {}
      /\ block = "none" /\ r.ok => count \in ToSet(r.s.kept)
  BY ReconnectedAfter
<1>4. live' = r.s.live /\ work' = r.s.work /\ kept' = r.s.kept BY <1>1 DEF Becomes
<1>5. Server.kept = kept /\ Server.work = work /\ Server.txn = (block # "none") /\ Server.live = live BY DEF Server
<1>6. count \in Nat /\ count' \in Nat /\ count <= count' BY <1>2 DEF RetryInv, RetryTyped
<1>7. 0 .. count - 1 \subseteq 0 .. count' - 1 /\ count \in 0 .. count' - 1 /\ count \notin 0 .. count - 1
  BY <1>2, <1>6, MoreNumbers
<1>8. CASE block = "none"
  <2>1. ToSet(kept)' \subseteq ToSet(kept) \cup {count} /\ ToSet(kept) \subseteq ToSet(kept)'
    BY <1>3, <1>4, <1>8
  <2>2. work' = {} BY <1>3, <1>4, <1>8
  <2>3. issued' = {} /\ issued = {} BY <1>1, <1>8 DEF RetryInv
  <2>6. promised' = promised \/ (promised' = promised \cup {count} /\ count \in ToSet(kept)')
    BY <1>1, <1>3, <1>4, <1>8
  <2>4. RetryTyped' BY <1>2, <1>3, <1>4, <1>6, <1>7, <2>1, <2>2, <2>3, <2>6 DEF RetryInv, RetryTyped
  <2>5. denied \subseteq 0 .. count - 1 BY DEF RetryInv, RetryTyped
  <2> QED BY <1>2, <1>7, <1>8, <2>1, <2>2, <2>3, <2>4, <2>5, <2>6 DEF RetryInv
<1>9. CASE block = "atomic"
  <2>1. ToSet(kept)' = ToSet(kept) /\ work' \subseteq work \cup {count}
    BY <1>3, <1>4, <1>5, <1>9 DEF After
  <2>2. promised' = promised BY <1>1, <1>9
  <2>3. \/ ~live' /\ issued' = issued
        \/ issued' = issued \cup {count} /\ work \subseteq work' /\ count \in work' /\ live
    BY <1>1, <1>3, <1>4, <1>5, <1>9 DEF After
  <2>4. RetryTyped' BY <1>2, <1>3, <1>4, <1>6, <1>7, <2>1, <2>2, <2>3 DEF RetryInv, RetryTyped
  <2>5. denied \cup ToSet(kept) \subseteq 0 .. count - 1 BY DEF RetryInv, RetryTyped
  <2>6. block' # "none" /\ live' => issued' \subseteq work' BY <1>9, <2>3 DEF RetryInv
  <2>7. ~live' => work' = {} BY <1>3, <1>4, <1>5, <1>9 DEF After, RetryInv
  <2> QED BY <2>7, <1>2, <1>7, <1>9, <2>1, <2>2, <2>3, <2>4, <2>5, <2>6 DEF RetryInv
<1> QED BY <1>2, <1>8, <1>9 DEF RetryInv, RetryTyped

\* The server drops the session, with its transaction.
LEMMA ServerDropsKeeps == RetryInv /\ ServerDrops => RetryInv'
BY DEF RetryInv, RetryTyped, ServerDrops

\* A block begins.
LEMMA EntersKeeps ==
    ASSUME RetryInv, NEW kind \in {"atomic", "retry"}, Enters(kind), left' \in Int, kind = "retry" => left' # 0
    PROVE  RetryInv'
BY DEF RetryInv, RetryTyped, Enters

\* The states of the server that a block can end in.
LEMMA EndStates ==
    ASSUME RetryInv, NEW s, s \in {Lost(Server), Lost(Committed(Server)), Committed(Server), [Server EXCEPT !.work = {}]}
                              \/ (s = Server /\ ~live)
    PROVE  /\ s.kept \in Seq(Nat) /\ s.live \in BOOLEAN /\ s.work = {}
           /\ ToSet(kept) \subseteq ToSet(s.kept) /\ ToSet(s.kept) \subseteq ToSet(kept) \cup work
           /\ s \in {Lost(Server), Server, [Server EXCEPT !.work = {}]} => ToSet(s.kept) = ToSet(kept)
           /\ s = Committed(Server) => ToSet(s.kept) = ToSet(kept) \cup work
<1>1. kept \in Seq(Nat) /\ live \in BOOLEAN BY DEF RetryInv, RetryTyped
<1>2. /\ Server.kept = kept /\ Server.live = live /\ Server.work = work
      /\ Lost(Server).kept = kept /\ Lost(Server).work = {} /\ Lost(Server).live = FALSE
      /\ [Server EXCEPT !.work = {}].kept = kept /\ [Server EXCEPT !.work = {}].work = {}
      /\ [Server EXCEPT !.work = {}].live = live
  BY DEF Server, Lost
<1>3. /\ Lost(Committed(Server)).kept = Committed(Server).kept /\ Lost(Committed(Server)).work = {}
      /\ Lost(Committed(Server)).live = FALSE
  BY DEF Server, Lost, Committed
<1>4. /\ Committed(Server).kept \in Seq(Nat) /\ Committed(Server).work = {} /\ Committed(Server).live = live
      /\ ToSet(Committed(Server).kept) = ToSet(kept) \cup work
  BY CommittedElements
<1>5. ~live => work = {} BY DEF RetryInv
<1> DEFINE L == Lost(Server)
           LC == Lost(Committed(Server))
           C == Committed(Server)
           N == [Server EXCEPT !.work = {}]
<1>6. s = L \/ s = LC \/ s = C \/ s = N \/ (s = Server /\ ~live) OBVIOUS
<1>7. s = L => s.kept = kept /\ s.work = {} /\ s.live = FALSE BY <1>2
<1>8. s = N => s.kept = kept /\ s.work = {} /\ s.live = live BY <1>2
<1>9. s = Server => s.kept = kept /\ s.work = work BY <1>2
<1>10. s = C => s.kept \in Seq(Nat) /\ s.work = {} /\ s.live = live /\ ToSet(s.kept) = ToSet(kept) \cup work BY <1>4
<1>11. s = LC => s.kept \in Seq(Nat) /\ s.work = {} /\ s.live = FALSE /\ ToSet(s.kept) = ToSet(kept) \cup work
  BY <1>3, <1>4
<1>12. s = Server => s.live = live BY <1>2
<1> HIDE DEF L, LC, C, N
<1>13. s \in {L, Server, N} => s.kept = kept BY <1>7, <1>8, <1>9
<1>14. /\ s.kept \in Seq(Nat) /\ s.live \in BOOLEAN /\ s.work = {}
       /\ ToSet(s.kept) = ToSet(kept) \/ ToSet(s.kept) = ToSet(kept) \cup work
  BY <1>1, <1>5, <1>6, <1>7, <1>8, <1>9, <1>10, <1>11, <1>12
<1> QED BY <1>10, <1>13, <1>14 DEF L, N, C

\* COMMIT of atomic(), and ROLLBACK.
LEMMA CommitKeeps == RetryInv /\ Commit => RetryInv'
<1> SUFFICES ASSUME RetryInv, Commit PROVE RetryInv' OBVIOUS
<1>1. block = "atomic" /\ count' = count /\ count' \in Nat /\ count <= count' BY DEF Commit, RetryInv, RetryTyped
<1>2. CASE live /\ Ends(Committed(Server), issued, {})
  <2>1. issued \subseteq ToSet(Committed(Server).kept)
    BY <1>1, <1>2, CommittedElements DEF RetryInv
  <2> DEFINE s == Committed(Server)
  <2>2. /\ s.kept \in Seq(Nat) /\ s.live \in BOOLEAN /\ s.work = {}
        /\ ToSet(kept) \subseteq ToSet(s.kept) /\ ToSet(s.kept) \subseteq ToSet(kept) \cup work
    BY EndStates
  <2> QED BY <1>1, <1>2, <2>1, <2>2, EndsKeeps
<1>3. ASSUME NEW s, s \in {Lost(Server), Lost(Committed(Server))} \/ (s = Server /\ ~live), Ends(s, {}, {})
      PROVE  RetryInv'
  <2>1. /\ s.kept \in Seq(Nat) /\ s.live \in BOOLEAN /\ s.work = {}
        /\ ToSet(kept) \subseteq ToSet(s.kept) /\ ToSet(s.kept) \subseteq ToSet(kept) \cup work
    BY <1>3, EndStates
  <2> QED BY <1>1, <1>3, <2>1, EndsKeeps
<1> QED BY <1>2, <1>3 DEF Commit

\* A block that is rolled back has done nothing of what the program is told is undone.
LEMMA UndoneKeeps ==
    ASSUME RetryInv, UNCHANGED count, Ends([Server EXCEPT !.work = {}], {}, issued)
    PROVE  RetryInv'
<1>1. count' = count /\ count' \in Nat /\ count <= count' BY DEF RetryInv, RetryTyped
<1> DEFINE s == [Server EXCEPT !.work = {}]
<1>2. /\ s.kept \in Seq(Nat) /\ s.live \in BOOLEAN /\ s.work = {} /\ ToSet(s.kept) = ToSet(kept)
  BY EndStates
<1>3. issued \cap ToSet(s.kept) = {} /\ issued \subseteq 0 .. count' - 1 BY <1>1, <1>2 DEF RetryInv, RetryTyped
<1> HIDE DEF s
<1> QED BY <1>1, <1>2, <1>3, EndsKeeps DEF s

\* The callback of run_transaction().
LEMMA CallbackKeeps == RetryInv /\ Callback => RetryInv'
<1> SUFFICES ASSUME RetryInv, Callback PROVE RetryInv' OBVIOUS
<1>1. PICK r \in Sent(Server, count) :
         IF r.ok THEN /\ Becomes(r.s)
                      /\ issued' = {count}
                      /\ UNCHANGED <<block, left, promised, denied>>
         ELSE Ends(r.s, {}, {count})
  BY DEF Callback
<1>2. block = "retry" /\ left # 0 /\ live /\ issued = {} /\ count' = count + 1 BY DEF Callback
<1>3. /\ Server \in Servers /\ Server.kept = kept /\ Server.work = work /\ Server.txn = TRUE
      /\ Server.live = live /\ count \in Nat /\ count' \in Nat /\ count <= count'
  <2>1. /\ count \in Nat /\ kept \in Seq(Nat) /\ live \in BOOLEAN /\ work \subseteq 0 .. count - 1
    BY DEF RetryInv, RetryTyped
  <2>2. work \subseteq Nat BY <2>1
  <2>3. Server \in Servers BY <2>1, <2>2 DEF Server, Servers
  <2>4. Server.kept = kept /\ Server.work = work /\ Server.txn = TRUE /\ Server.live = live BY <1>2 DEF Server
  <2> HIDE DEF Server
  <2> QED BY <1>2, <2>1, <2>3, <2>4
<1>4. After(Server, count, r.s, r.ok) BY <1>3, SentAfter
<1>5. 0 .. count - 1 \subseteq 0 .. count' - 1 /\ count \in 0 .. count' - 1 /\ count \notin 0 .. count - 1
  BY <1>2, <1>3, MoreNumbers
<1> HIDE DEF Server
<1>6. /\ r.s.kept \in Seq(Nat) /\ r.s.live \in BOOLEAN
      /\ ToSet(r.s.kept) = ToSet(kept) /\ r.s.work \subseteq work \cup {count}
      /\ r.ok => r.s.live /\ work \subseteq r.s.work /\ count \in r.s.work
      /\ ~r.ok => r.s.work = {}
  BY <1>2, <1>3, <1>4 DEF After
<1>7. ToSet(kept) \cup denied \subseteq 0 .. count - 1 BY DEF RetryInv, RetryTyped
<1>8. CASE r.ok
  <2>1. /\ kept' = r.s.kept /\ work' = r.s.work /\ live' = r.s.live /\ issued' = {count}
        /\ UNCHANGED <<block, left, promised, denied>>
    BY <1>1, <1>8 DEF Becomes
  <2>2. RetryTyped' BY <1>3, <1>5, <1>6, <2>1 DEF RetryInv, RetryTyped
  <2> QED BY <1>2, <1>5, <1>6, <1>7, <1>8, <2>1, <2>2 DEF RetryInv
<1>9. CASE ~r.ok
  <2>1. {count} \cap ToSet(r.s.kept) = {} BY <1>5, <1>6, <1>7
  <2> QED BY <1>1, <1>3, <1>5, <1>6, <1>9, <2>1, EndsKeeps
<1> QED BY <1>8, <1>9

\* The end of an attempt of run_transaction().
LEMMA ReleaseKeeps == RetryInv /\ Release => RetryInv'
<1> SUFFICES ASSUME RetryInv, Release PROVE RetryInv' OBVIOUS
<1>1. block = "retry" /\ count' = count /\ count' \in Nat /\ count <= count' BY DEF Release, RetryInv, RetryTyped
<1>2. CASE live /\ Ends(Committed(Server), issued, {})
  <2>1. issued \subseteq ToSet(Committed(Server).kept)
    BY <1>1, <1>2, CommittedElements DEF RetryInv
  <2> DEFINE s == Committed(Server)
  <2>2. /\ s.kept \in Seq(Nat) /\ s.live \in BOOLEAN /\ s.work = {}
        /\ ToSet(kept) \subseteq ToSet(s.kept) /\ ToSet(s.kept) \subseteq ToSet(kept) \cup work
    BY EndStates
  <2> QED BY <1>1, <1>2, <2>1, <2>2, EndsKeeps
<1>3. ASSUME NEW s, s \in {Lost(Server), Lost(Committed(Server))} \/ (s = Server /\ ~live), Ends(s, {}, {})
      PROVE  RetryInv'
  <2>1. /\ s.kept \in Seq(Nat) /\ s.live \in BOOLEAN /\ s.work = {}
        /\ ToSet(kept) \subseteq ToSet(s.kept) /\ ToSet(s.kept) \subseteq ToSet(kept) \cup work
    BY <1>3, EndStates
  <2> QED BY <1>1, <1>3, <2>1, EndsKeeps
<1> QED BY <1>2, <1>3 DEF Release

\* Back to the savepoint.
LEMMA AgainKeeps == RetryInv /\ Again => RetryInv'
<1> SUFFICES ASSUME RetryInv, Again PROVE RetryInv' OBVIOUS
<1>1. /\ live' = live /\ work' = {} /\ kept' = kept /\ issued' = {} /\ denied' = denied \cup issued
      /\ UNCHANGED <<block, promised, count>> /\ left' = (IF left < 0 THEN left ELSE left - 1)
  BY DEF Again, Becomes, BackToSavepoint, Server
<1>2. RetryTyped' BY <1>1 DEF RetryInv, RetryTyped
<1> QED BY <1>1, <1>2 DEF RetryInv

\* The last attempt was one too many.
LEMMA GiveUpKeeps == RetryInv /\ GiveUp => RetryInv'
<1> SUFFICES ASSUME RetryInv, GiveUp PROVE RetryInv' OBVIOUS
<1>1. block = "retry" /\ count' = count /\ count' \in Nat /\ count <= count' BY DEF GiveUp, RetryInv, RetryTyped
<1>2. CASE left = 0 /\ live /\ Ends(Committed(Server), {}, issued)
  <2>1. issued = {} BY <1>1, <1>2 DEF RetryInv
  <2> DEFINE s == Committed(Server)
  <2>2. /\ s.kept \in Seq(Nat) /\ s.live \in BOOLEAN /\ s.work = {}
        /\ ToSet(kept) \subseteq ToSet(s.kept) /\ ToSet(s.kept) \subseteq ToSet(kept) \cup work
    BY EndStates
  <2>3. issued \cap ToSet(s.kept) = {} /\ issued \subseteq 0 .. count' - 1 BY <2>1
  <2> HIDE DEF s
  <2> QED BY <1>1, <1>2, <2>2, <2>3, EndsKeeps DEF s
<1>3. CASE Ends([Server EXCEPT !.work = {}], {}, issued) BY <1>1, <1>3, UndoneKeeps
<1> QED BY <1>2, <1>3 DEF GiveUp

\* Every step keeps the invariant.
LEMMA RetrySteps == RetryInv /\ [RetryNext]_retryVars => RetryInv'
<1> SUFFICES ASSUME RetryInv, [RetryNext]_retryVars PROVE RetryInv' OBVIOUS
<1>1. CASE UNCHANGED retryVars BY <1>1 DEF retryVars, RetryInv, RetryTyped
<1>2. CASE EnterAtomic
  <2>1. Enters("atomic") /\ left' = 0 BY <1>2 DEF EnterAtomic
  <2> QED BY <2>1, EntersKeeps
<1>3. CASE RunTransaction
  <2>1. Enters("retry") /\ left' \in Int /\ left' # 0 BY <1>3, RetryAssumption DEF RunTransaction
  <2> QED BY <2>1, EntersKeeps
<1>4. CASE Rollback
  <2>1. Ends([Server EXCEPT !.work = {}], {}, issued) /\ UNCHANGED count BY <1>4 DEF Rollback
  <2> QED BY <2>1, UndoneKeeps
<1> QED BY <1>1, <1>2, <1>3, <1>4, ServerDropsKeeps, ExecuteKeeps, CommitKeeps, CallbackKeeps, ReleaseKeeps,
           AgainKeeps, GiveUpKeeps DEF RetryNext

\* What the program was told is done for good, is; what it was told is undone, is not,
\* however often the session is lost and a call or an attempt is repeated.
THEOREM RetriesAreHonest == RetrySpec => []NothingHalfDone
<1>1. RetryInv => NothingHalfDone BY DEF RetryInv, NothingHalfDone
<1> QED BY <1>1, RetryStarts, RetrySteps, PTL DEF RetrySpec

-----------------------------------------------------------------------------
(***************************************************************************)
(* SqliteConnections: what the connections of the threads have.            *)
(***************************************************************************)

\* A registry, or a connection, with names of these kinds.
Holds(r) ==
    /\ DOMAIN r.functions \subseteq FunctionNames /\ DOMAIN r.attached \subseteq Schemata
    /\ r.extensions \subseteq Extensions
    /\ r = [functions |-> r.functions, attached |-> r.attached, extensions |-> r.extensions, pragmas |-> r.pragmas]

\* The database and every open connection have names of the right kinds.
SqliteTyped ==
    /\ DOMAIN conn = Threads /\ DOMAIN fresh = Threads /\ DOMAIN busy.of = Threads
    /\ busy = [now |-> busy.now, of |-> busy.of]
    /\ Holds(registry)
    /\ \A t \in Threads : conn[t] = Closed \/ Holds(conn[t])

SqliteInv == SqliteTyped /\ SettingsLast

\* Adding and removing an entry.
LEMMA Entries ==
    ASSUME NEW f, NEW k, NEW v
    PROVE  DOMAIN With(f, k, v) = DOMAIN f \cup {k} /\ DOMAIN Without(f, k) = DOMAIN f \ {k}
BY DEF With, Without, Restrict

\* A registry with another part is a registry.
LEMMA Parts ==
    ASSUME NEW r, Holds(r)
    PROVE  /\ \A f : DOMAIN f \subseteq FunctionNames =>
                Holds([r EXCEPT !.functions = f]) /\ [r EXCEPT !.functions = f].functions = f
                /\ [r EXCEPT !.functions = f].attached = r.attached /\ [r EXCEPT !.functions = f].extensions = r.extensions
           /\ \A f : DOMAIN f \subseteq Schemata =>
                Holds([r EXCEPT !.attached = f]) /\ [r EXCEPT !.attached = f].attached = f
                /\ [r EXCEPT !.attached = f].functions = r.functions /\ [r EXCEPT !.attached = f].extensions = r.extensions
           /\ \A e : e \subseteq Extensions =>
                Holds([r EXCEPT !.extensions = e]) /\ [r EXCEPT !.extensions = e].extensions = e
                /\ [r EXCEPT !.extensions = e].functions = r.functions /\ [r EXCEPT !.extensions = e].attached = r.attached
           /\ \A f : Holds([r EXCEPT !.pragmas = f])
                /\ [r EXCEPT !.pragmas = f].functions = r.functions /\ [r EXCEPT !.pragmas = f].attached = r.attached
                /\ [r EXCEPT !.pragmas = f].extensions = r.extensions
BY DEF Holds

\* What is held is open.
LEMMA HeldIsOpen == \A r : Holds(r) => r # Closed
BY SqliteAssumption DEF Holds, Closed, Bare

\* The first state.
LEMMA SqliteStarts == SqliteInit => SqliteInv
<1> SUFFICES ASSUME SqliteInit PROVE SqliteInv OBVIOUS
<1>1. PICK k, v, s : registry = [Bare EXCEPT !.pragmas = With(NoEntries, k, v)] /\ busy = [now |-> s, of |-> [t \in Threads |-> s]]
  BY DEF SqliteInit
<1>2. Holds(Bare) BY DEF Holds, Bare, NoEntries
<1>3. Holds(registry) BY <1>1, <1>2, Parts
<1>4. conn = [t \in Threads |-> Closed] /\ fresh = [t \in Threads |-> FALSE] BY DEF SqliteInit
<1> QED BY <1>1, <1>3, <1>4 DEF SqliteInv, SqliteTyped, SettingsLast, IsOpen

\* What a step makes of the registry and of the connections: the connection of thread t
\* alone may change, and stays open, with names that are registered or were dropped.
Keeps(t) ==
    /\ DOMAIN conn' = Threads /\ DOMAIN fresh' = Threads /\ DOMAIN busy'.of = Threads
    /\ busy' = [now |-> busy'.now, of |-> busy'.of]
    /\ Holds(registry')
    /\ \A u \in Threads \ {t} : conn'[u] = conn[u]
    /\ DOMAIN registry.functions \cup dropped \subseteq DOMAIN registry'.functions \cup dropped' \cup Schemata \cup Extensions
    /\ DOMAIN registry.attached \cup dropped \subseteq DOMAIN registry'.attached \cup dropped' \cup FunctionNames \cup Extensions
    /\ registry.extensions \cup dropped \subseteq registry'.extensions \cup dropped' \cup FunctionNames \cup Schemata
    /\ IsOpen(t)' =>
         /\ Holds(conn'[t])
         /\ DOMAIN conn'[t].functions \subseteq DOMAIN registry'.functions \cup dropped'
         /\ DOMAIN conn'[t].attached \subseteq DOMAIN registry'.attached \cup dropped'
         /\ conn'[t].extensions \subseteq registry'.extensions \cup dropped'
    /\ \A u \in Threads : fresh'[u] /\ IsOpen(u)' => conn'[u] = registry' /\ busy'.of[u] = busy'.now

\* Such a step keeps the invariant.
LEMMA KeepsKeeps ==
    ASSUME SqliteInv, NEW t \in Threads, Keeps(t)
    PROVE  SqliteInv'
<1>1. SqliteTyped' BY DEF SqliteInv, SqliteTyped, Keeps, IsOpen
<1>2. SettingsLast'
  <2> SUFFICES ASSUME NEW u \in Threads, IsOpen(u)'
               PROVE  /\ fresh'[u] => conn'[u] = registry' /\ busy'.of[u] = busy'.now
                      /\ DOMAIN conn'[u].functions \subseteq DOMAIN registry'.functions \cup dropped'
                      /\ DOMAIN conn'[u].attached \subseteq DOMAIN registry'.attached \cup dropped'
                      /\ conn'[u].extensions \subseteq registry'.extensions \cup dropped'
    BY DEF SettingsLast
  <2>1. CASE u = t BY <2>1 DEF Keeps
  <2>2. CASE u # t
    <3>1. conn'[u] = conn[u] /\ IsOpen(u) BY <2>2 DEF Keeps, IsOpen
    <3>2. Holds(conn[u]) BY <3>1 DEF SqliteInv, SqliteTyped, IsOpen
    <3>3. /\ DOMAIN conn[u].functions \subseteq DOMAIN registry.functions \cup dropped
          /\ DOMAIN conn[u].attached \subseteq DOMAIN registry.attached \cup dropped
          /\ conn[u].extensions \subseteq registry.extensions \cup dropped
      BY <3>1 DEF SqliteInv, SettingsLast
    <3> QED BY <3>1, <3>2, <3>3, SqliteAssumption DEF Keeps, Holds
  <2> QED BY <2>1, <2>2
<1> QED BY <1>1, <1>2 DEF SqliteInv

\* Opening a connection.
LEMMA ConnectKeeps == ASSUME SqliteInv, NEW t \in Threads, Connect(t) PROVE SqliteInv'
<1>1. /\ conn' = [conn EXCEPT ![t] = AddConnHooks(registry)] /\ busy' = [busy EXCEPT !.of[t] = busy.now]
      /\ fresh' = [fresh EXCEPT ![t] = TRUE] /\ UNCHANGED <<registry, inTxn, dropped>>
  BY DEF Connect
<1>2. AddConnHooks(registry) = registry
  <2>1. Holds(registry) BY DEF SqliteInv, SqliteTyped
  <2>2. registry.extensions \ {"closed"} = registry.extensions BY <2>1, SqliteAssumption DEF Holds
  <2> QED BY <2>1, <2>2 DEF AddConnHooks, Holds
<1>3. conn'[t] = registry /\ \A u \in Threads \ {t} : conn'[u] = conn[u] BY <1>1, <1>2 DEF SqliteInv, SqliteTyped
<1>4. busy'.now = busy.now /\ busy'.of = [busy.of EXCEPT ![t] = busy.now] /\ busy' = [now |-> busy'.now, of |-> busy'.of]
  BY <1>1 DEF SqliteInv, SqliteTyped
<1>5. Keeps(t) BY <1>1, <1>3, <1>4 DEF Keeps, SqliteInv, SqliteTyped, SettingsLast, IsOpen
<1> QED BY <1>5, KeepsKeeps

\* Closing one.
LEMMA CloseKeeps == ASSUME SqliteInv, NEW t \in Threads, Close(t) PROVE SqliteInv'
<1>0. /\ Holds(registry) /\ (IsOpen(t) => Holds(conn[t])) /\ DOMAIN conn = Threads /\ DOMAIN fresh = Threads
      /\ DOMAIN busy.of = Threads /\ busy = [now |-> busy.now, of |-> busy.of]
  BY DEF SqliteInv, SqliteTyped, IsOpen
<1>s. /\ \A u \in Threads : IsOpen(u) /\ fresh[u] => conn[u] = registry /\ busy.of[u] = busy.now
      /\ IsOpen(t) => /\ DOMAIN conn[t].functions \subseteq DOMAIN registry.functions \cup dropped
                      /\ DOMAIN conn[t].attached \subseteq DOMAIN registry.attached \cup dropped
                      /\ conn[t].extensions \subseteq registry.extensions \cup dropped
  BY DEF SqliteInv, SettingsLast
<1>1. /\ conn' = [conn EXCEPT ![t] = Closed] /\ fresh' = [fresh EXCEPT ![t] = FALSE]
      /\ UNCHANGED <<registry, busy, dropped>>
  BY DEF Close
<1>2. Keeps(t) BY <1>0, <1>s, <1>1 DEF Keeps, IsOpen
<1> QED BY <1>2, KeepsKeeps

\* Functions, aggregates and collations.
LEMMA RegisterKeeps ==
    ASSUME SqliteInv, NEW t \in Threads, NEW n \in FunctionNames, NEW v, Register(t, n, v) PROVE SqliteInv'
<1>0. /\ Holds(registry) /\ (IsOpen(t) => Holds(conn[t])) /\ DOMAIN conn = Threads /\ DOMAIN fresh = Threads
      /\ DOMAIN busy.of = Threads /\ busy = [now |-> busy.now, of |-> busy.of]
  BY DEF SqliteInv, SqliteTyped, IsOpen
<1>s. /\ \A u \in Threads : IsOpen(u) /\ fresh[u] => conn[u] = registry /\ busy.of[u] = busy.now
      /\ IsOpen(t) => /\ DOMAIN conn[t].functions \subseteq DOMAIN registry.functions \cup dropped
                      /\ DOMAIN conn[t].attached \subseteq DOMAIN registry.attached \cup dropped
                      /\ conn[t].extensions \subseteq registry.extensions \cup dropped
  BY DEF SqliteInv, SettingsLast
<1>f. DOMAIN fresh' = Threads /\ \A u \in Threads : fresh'[u] => registry' = registry /\ u # t /\ fresh[u]
  BY DEF Register, Freshness
<1> DEFINE new == With(registry.functions, n, v)
           load(f) == [m \in DOMAIN f \cup DOMAIN new |-> IF m \in DOMAIN new THEN new[m] ELSE f[m]]
<1>1. registry' = [registry EXCEPT !.functions = new] /\ dropped' = dropped \ {n} /\ busy' = busy BY DEF Register
<1>2. DOMAIN new = DOMAIN registry.functions \cup {n} /\ DOMAIN new \subseteq FunctionNames
  <2>1. DOMAIN registry.functions \subseteq FunctionNames BY <1>0 DEF Holds
  <2>2. DOMAIN new = DOMAIN registry.functions \cup {n} BY Entries
  <2> QED BY <2>1, <2>2
<1>3. /\ Holds(registry') /\ registry'.functions = new
      /\ registry'.attached = registry.attached /\ registry'.extensions = registry.extensions
  BY <1>0, <1>1, <1>2, Parts
<1>4. conn' = IF IsOpen(t) THEN [conn EXCEPT ![t] = [conn[t] EXCEPT !.functions = load(conn[t].functions)]] ELSE conn
  BY <1>3 DEF Register
<1>5. \A f : DOMAIN load(f) = DOMAIN f \cup DOMAIN new OBVIOUS
<1> HIDE DEF new, load
<1>6. ASSUME IsOpen(t)
      PROVE  /\ Holds(conn'[t]) /\ DOMAIN conn'[t].functions = DOMAIN conn[t].functions \cup DOMAIN new
             /\ conn'[t].attached = conn[t].attached /\ conn'[t].extensions = conn[t].extensions
  <2>1. conn'[t] = [conn[t] EXCEPT !.functions = load(conn[t].functions)] BY <1>0, <1>4, <1>6
  <2>2. DOMAIN load(conn[t].functions) \subseteq FunctionNames BY <1>0, <1>2, <1>5, <1>6 DEF Holds
  <2> QED BY <1>0, <1>5, <1>6, <2>1, <2>2, Parts
<1>7. /\ DOMAIN conn' = Threads /\ \A u \in Threads \ {t} : conn'[u] = conn[u]
      /\ ~IsOpen(t) => conn'[t] = conn[t]
  BY <1>0, <1>4
<1>8. Keeps(t) BY <1>0, <1>s, <1>f, <1>1, <1>2, <1>3, <1>6, <1>7, SqliteAssumption DEF Keeps, IsOpen, Holds
<1> QED BY <1>8, KeepsKeeps

\* Taking one away: the connections keep it.
LEMMA UnregisterKeeps ==
    ASSUME SqliteInv, NEW t \in Threads, NEW n \in FunctionNames, Unregister(t, n) PROVE SqliteInv'
<1>0. /\ Holds(registry) /\ (IsOpen(t) => Holds(conn[t])) /\ DOMAIN conn = Threads /\ DOMAIN fresh = Threads
      /\ DOMAIN busy.of = Threads /\ busy = [now |-> busy.now, of |-> busy.of]
  BY DEF SqliteInv, SqliteTyped, IsOpen
<1>s. /\ \A u \in Threads : IsOpen(u) /\ fresh[u] => conn[u] = registry /\ busy.of[u] = busy.now
      /\ IsOpen(t) => /\ DOMAIN conn[t].functions \subseteq DOMAIN registry.functions \cup dropped
                      /\ DOMAIN conn[t].attached \subseteq DOMAIN registry.attached \cup dropped
                      /\ conn[t].extensions \subseteq registry.extensions \cup dropped
  BY DEF SqliteInv, SettingsLast
<1>f. DOMAIN fresh' = Threads /\ \A u \in Threads : fresh'[u] => registry' = registry /\ u # t /\ fresh[u]
  BY DEF Unregister, Freshness
<1>1. /\ registry' = [registry EXCEPT !.functions = Without(registry.functions, n)] /\ dropped' = dropped \cup {n}
      /\ busy' = busy /\ conn' = conn
  BY DEF Unregister
<1>2. DOMAIN Without(registry.functions, n) = DOMAIN registry.functions \ {n} BY Entries
<1>3. /\ Holds(registry') /\ registry'.functions = Without(registry.functions, n)
      /\ registry'.attached = registry.attached /\ registry'.extensions = registry.extensions
  BY <1>0, <1>1, <1>2, Parts DEF Holds
<1>4. Keeps(t) BY <1>0, <1>s, <1>f, <1>1, <1>2, <1>3 DEF Keeps, IsOpen
<1> QED BY <1>4, KeepsKeeps

\* Attaching a file.
LEMMA AttachKeeps ==
    ASSUME SqliteInv, NEW t \in Threads, NEW n \in Schemata, NEW file, Attach(t, n, file) PROVE SqliteInv'
<1>0. /\ Holds(registry) /\ (IsOpen(t) => Holds(conn[t])) /\ DOMAIN conn = Threads /\ DOMAIN fresh = Threads
      /\ DOMAIN busy.of = Threads /\ busy = [now |-> busy.now, of |-> busy.of]
  BY DEF SqliteInv, SqliteTyped, IsOpen
<1>s. /\ \A u \in Threads : IsOpen(u) /\ fresh[u] => conn[u] = registry /\ busy.of[u] = busy.now
      /\ IsOpen(t) => /\ DOMAIN conn[t].functions \subseteq DOMAIN registry.functions \cup dropped
                      /\ DOMAIN conn[t].attached \subseteq DOMAIN registry.attached \cup dropped
                      /\ conn[t].extensions \subseteq registry.extensions \cup dropped
  BY DEF SqliteInv, SettingsLast
<1>f. DOMAIN fresh' = Threads /\ \A u \in Threads : fresh'[u] => registry' = registry /\ u # t /\ fresh[u]
  BY DEF Attach, Freshness
<1>1. /\ registry' = [registry EXCEPT !.attached = With(registry.attached, n, file)]
      /\ dropped' = dropped \ {n} /\ busy' = busy
      /\ \/ IsOpen(t) /\ conn' = [conn EXCEPT ![t] = [conn[t] EXCEPT !.attached = With(conn[t].attached, n, file)]]
         \/ conn' = conn
  BY DEF Attach, Attached
<1>2. DOMAIN With(registry.attached, n, file) = DOMAIN registry.attached \cup {n} BY Entries
<1>3. /\ Holds(registry') /\ registry'.attached = With(registry.attached, n, file)
      /\ registry'.functions = registry.functions /\ registry'.extensions = registry.extensions
  BY <1>0, <1>1, <1>2, Parts DEF Holds
<1>4. DOMAIN With(conn[t].attached, n, file) = DOMAIN conn[t].attached \cup {n} BY Entries
<1>5. ASSUME IsOpen(t), conn' # conn
      PROVE  /\ Holds(conn'[t]) /\ DOMAIN conn'[t].attached = DOMAIN conn[t].attached \cup {n}
             /\ conn'[t].functions = conn[t].functions /\ conn'[t].extensions = conn[t].extensions
  <2>1. conn'[t] = [conn[t] EXCEPT !.attached = With(conn[t].attached, n, file)] BY <1>0, <1>1, <1>5
  <2>2. DOMAIN With(conn[t].attached, n, file) \subseteq Schemata BY <1>0, <1>4, <1>5 DEF Holds
  <2> QED BY <1>0, <1>4, <1>5, <2>1, <2>2, Parts
<1>6. /\ DOMAIN conn' = Threads /\ \A u \in Threads \ {t} : conn'[u] = conn[u]
      /\ ~IsOpen(t) => conn'[t] = conn[t]
  BY <1>0, <1>1
<1>7. Keeps(t) BY <1>0, <1>s, <1>f, <1>1, <1>2, <1>3, <1>5, <1>6, SqliteAssumption DEF Keeps, IsOpen, Holds
<1> QED BY <1>7, KeepsKeeps

\* Detaching one: the connections of other threads keep it.
LEMMA DetachKeeps ==
    ASSUME SqliteInv, NEW t \in Threads, NEW n \in Schemata, Detach(t, n) PROVE SqliteInv'
<1>0. /\ Holds(registry) /\ (IsOpen(t) => Holds(conn[t])) /\ DOMAIN conn = Threads /\ DOMAIN fresh = Threads
      /\ DOMAIN busy.of = Threads /\ busy = [now |-> busy.now, of |-> busy.of]
  BY DEF SqliteInv, SqliteTyped, IsOpen
<1>s. /\ \A u \in Threads : IsOpen(u) /\ fresh[u] => conn[u] = registry /\ busy.of[u] = busy.now
      /\ IsOpen(t) => /\ DOMAIN conn[t].functions \subseteq DOMAIN registry.functions \cup dropped
                      /\ DOMAIN conn[t].attached \subseteq DOMAIN registry.attached \cup dropped
                      /\ conn[t].extensions \subseteq registry.extensions \cup dropped
  BY DEF SqliteInv, SettingsLast
<1>f. DOMAIN fresh' = Threads /\ \A u \in Threads : fresh'[u] => registry' = registry /\ u # t /\ fresh[u]
  BY DEF Detach, Freshness
<1>1. /\ registry' = [registry EXCEPT !.attached = Without(registry.attached, n)]
      /\ dropped' = dropped \cup {n} /\ busy' = busy
      /\ \/ IsOpen(t) /\ conn' = [conn EXCEPT ![t] = [conn[t] EXCEPT !.attached = Without(conn[t].attached, n)]]
         \/ conn' = conn
  BY DEF Detach
<1>2. DOMAIN Without(registry.attached, n) = DOMAIN registry.attached \ {n} BY Entries
<1>3. /\ Holds(registry') /\ registry'.attached = Without(registry.attached, n)
      /\ registry'.functions = registry.functions /\ registry'.extensions = registry.extensions
  BY <1>0, <1>1, <1>2, Parts DEF Holds
<1>4. DOMAIN Without(conn[t].attached, n) = DOMAIN conn[t].attached \ {n} BY Entries
<1>5. ASSUME IsOpen(t), conn' # conn
      PROVE  /\ Holds(conn'[t]) /\ DOMAIN conn'[t].attached \subseteq DOMAIN conn[t].attached
             /\ conn'[t].functions = conn[t].functions /\ conn'[t].extensions = conn[t].extensions
  <2>1. conn'[t] = [conn[t] EXCEPT !.attached = Without(conn[t].attached, n)] BY <1>0, <1>1, <1>5
  <2>2. DOMAIN Without(conn[t].attached, n) \subseteq Schemata BY <1>0, <1>4, <1>5 DEF Holds
  <2> QED BY <1>0, <1>4, <1>5, <2>1, <2>2, Parts
<1>6. /\ DOMAIN conn' = Threads /\ \A u \in Threads \ {t} : conn'[u] = conn[u]
      /\ ~IsOpen(t) => conn'[t] = conn[t]
  BY <1>0, <1>1
<1>7. Keeps(t) BY <1>0, <1>s, <1>f, <1>1, <1>2, <1>3, <1>5, <1>6, SqliteAssumption DEF Keeps, IsOpen, Holds
<1> QED BY <1>7, KeepsKeeps

\* Loading an extension.
LEMMA LoadExtensionKeeps ==
    ASSUME SqliteInv, NEW t \in Threads, NEW e \in Extensions, LoadExtension(t, e) PROVE SqliteInv'
<1>0. /\ Holds(registry) /\ (IsOpen(t) => Holds(conn[t])) /\ DOMAIN conn = Threads /\ DOMAIN fresh = Threads
      /\ DOMAIN busy.of = Threads /\ busy = [now |-> busy.now, of |-> busy.of]
  BY DEF SqliteInv, SqliteTyped, IsOpen
<1>s. /\ \A u \in Threads : IsOpen(u) /\ fresh[u] => conn[u] = registry /\ busy.of[u] = busy.now
      /\ IsOpen(t) => /\ DOMAIN conn[t].functions \subseteq DOMAIN registry.functions \cup dropped
                      /\ DOMAIN conn[t].attached \subseteq DOMAIN registry.attached \cup dropped
                      /\ conn[t].extensions \subseteq registry.extensions \cup dropped
  BY DEF SqliteInv, SettingsLast
<1>f. DOMAIN fresh' = Threads /\ \A u \in Threads : fresh'[u] => registry' = registry /\ u # t /\ fresh[u]
  BY DEF LoadExtension, Freshness
<1>1. /\ registry' = [registry EXCEPT !.extensions = registry.extensions \cup {e}]
      /\ dropped' = dropped \ {e} /\ busy' = busy
      /\ \/ IsOpen(t) /\ conn' = [conn EXCEPT ![t] = [conn[t] EXCEPT !.extensions = conn[t].extensions \cup {e}]]
         \/ conn' = conn
  BY DEF LoadExtension
<1>2. /\ Holds(registry') /\ registry'.extensions = registry.extensions \cup {e}
      /\ registry'.functions = registry.functions /\ registry'.attached = registry.attached
  <2>1. registry.extensions \cup {e} \subseteq Extensions BY <1>0 DEF Holds
  <2> QED BY <1>0, <1>1, <2>1, Parts
<1>3. ASSUME IsOpen(t), conn' # conn
      PROVE  /\ Holds(conn'[t]) /\ conn'[t].extensions = conn[t].extensions \cup {e}
             /\ conn'[t].functions = conn[t].functions /\ conn'[t].attached = conn[t].attached
  <2>1. conn'[t] = [conn[t] EXCEPT !.extensions = conn[t].extensions \cup {e}] BY <1>0, <1>1, <1>3
  <2>2. conn[t].extensions \cup {e} \subseteq Extensions BY <1>0, <1>3 DEF Holds
  <2> QED BY <1>0, <1>3, <2>1, <2>2, Parts
<1>4. /\ DOMAIN conn' = Threads /\ \A u \in Threads \ {t} : conn'[u] = conn[u]
      /\ ~IsOpen(t) => conn'[t] = conn[t]
  BY <1>0, <1>1
<1>5. Keeps(t) BY <1>0, <1>s, <1>f, <1>1, <1>2, <1>3, <1>4, SqliteAssumption DEF Keeps, IsOpen, Holds
<1> QED BY <1>5, KeepsKeeps

\* Unloading one: the connections keep it.
LEMMA UnloadExtensionKeeps ==
    ASSUME SqliteInv, NEW t \in Threads, NEW e \in Extensions, UnloadExtension(t, e) PROVE SqliteInv'
<1>0. /\ Holds(registry) /\ (IsOpen(t) => Holds(conn[t])) /\ DOMAIN conn = Threads /\ DOMAIN fresh = Threads
      /\ DOMAIN busy.of = Threads /\ busy = [now |-> busy.now, of |-> busy.of]
  BY DEF SqliteInv, SqliteTyped, IsOpen
<1>s. /\ \A u \in Threads : IsOpen(u) /\ fresh[u] => conn[u] = registry /\ busy.of[u] = busy.now
      /\ IsOpen(t) => /\ DOMAIN conn[t].functions \subseteq DOMAIN registry.functions \cup dropped
                      /\ DOMAIN conn[t].attached \subseteq DOMAIN registry.attached \cup dropped
                      /\ conn[t].extensions \subseteq registry.extensions \cup dropped
  BY DEF SqliteInv, SettingsLast
<1>f. DOMAIN fresh' = Threads /\ \A u \in Threads : fresh'[u] => registry' = registry /\ u # t /\ fresh[u]
  BY DEF UnloadExtension, Freshness
<1>1. /\ registry' = [registry EXCEPT !.extensions = registry.extensions \ {e}] /\ dropped' = dropped \cup {e}
      /\ busy' = busy /\ conn' = conn
  BY DEF UnloadExtension
<1>2. /\ Holds(registry') /\ registry'.extensions = registry.extensions \ {e}
      /\ registry'.functions = registry.functions /\ registry'.attached = registry.attached
  <2>1. registry.extensions \ {e} \subseteq Extensions BY <1>0 DEF Holds
  <2> QED BY <1>0, <1>1, <2>1, Parts
<1>3. Keeps(t) BY <1>0, <1>s, <1>f, <1>1, <1>2 DEF Keeps, IsOpen
<1> QED BY <1>3, KeepsKeeps

\* A pragma, for this connection or for all later ones too.
LEMMA PragmaKeeps ==
    ASSUME SqliteInv, NEW t \in Threads, NEW k, NEW v, NEW p \in BOOLEAN, Pragma(t, k, v, p) PROVE SqliteInv'
<1>0. /\ Holds(registry) /\ (IsOpen(t) => Holds(conn[t])) /\ DOMAIN conn = Threads /\ DOMAIN fresh = Threads
      /\ DOMAIN busy.of = Threads /\ busy = [now |-> busy.now, of |-> busy.of]
  BY DEF SqliteInv, SqliteTyped, IsOpen
<1>s. /\ \A u \in Threads : IsOpen(u) /\ fresh[u] => conn[u] = registry /\ busy.of[u] = busy.now
      /\ IsOpen(t) => /\ DOMAIN conn[t].functions \subseteq DOMAIN registry.functions \cup dropped
                      /\ DOMAIN conn[t].attached \subseteq DOMAIN registry.attached \cup dropped
                      /\ conn[t].extensions \subseteq registry.extensions \cup dropped
  BY DEF SqliteInv, SettingsLast
<1>f. DOMAIN fresh' = Threads /\ \A u \in Threads : fresh'[u] => registry' = registry /\ u # t /\ fresh[u]
  BY DEF Pragma, Freshness
<1>1. /\ registry' = [registry EXCEPT !.pragmas = With(registry.pragmas, k, v)] \/ registry' = registry
      /\ dropped' = dropped /\ busy' = busy /\ IsOpen(t)
      /\ conn' = [conn EXCEPT ![t] = [conn[t] EXCEPT !.pragmas = With(conn[t].pragmas, k, v)]]
  BY DEF Pragma
<1>2. /\ Holds(registry') /\ registry'.extensions = registry.extensions
      /\ registry'.functions = registry.functions /\ registry'.attached = registry.attached
  <2>1. CASE registry' = registry BY <1>0, <2>1
  <2>2. CASE registry' = [registry EXCEPT !.pragmas = With(registry.pragmas, k, v)] BY <1>0, <2>2, Parts
  <2> QED BY <1>1, <2>1, <2>2
<1>3. /\ Holds(conn'[t]) /\ conn'[t].extensions = conn[t].extensions
      /\ conn'[t].functions = conn[t].functions /\ conn'[t].attached = conn[t].attached
  BY <1>0, <1>1, Parts
<1>4. DOMAIN conn' = Threads /\ \A u \in Threads \ {t} : conn'[u] = conn[u] BY <1>0, <1>1
<1>5. Keeps(t) BY <1>0, <1>s, <1>f, <1>1, <1>2, <1>3, <1>4 DEF Keeps, IsOpen
<1> QED BY <1>5, KeepsKeeps

\* The timeout.
LEMMA SetTimeoutKeeps == ASSUME SqliteInv, NEW t \in Threads, NEW s, SetTimeout(t, s) PROVE SqliteInv'
<1>0. /\ Holds(registry) /\ (IsOpen(t) => Holds(conn[t])) /\ DOMAIN conn = Threads /\ DOMAIN fresh = Threads
      /\ DOMAIN busy.of = Threads /\ busy = [now |-> busy.now, of |-> busy.of]
  BY DEF SqliteInv, SqliteTyped, IsOpen
<1>s. /\ \A u \in Threads : IsOpen(u) /\ fresh[u] => conn[u] = registry /\ busy.of[u] = busy.now
      /\ IsOpen(t) => /\ DOMAIN conn[t].functions \subseteq DOMAIN registry.functions \cup dropped
                      /\ DOMAIN conn[t].attached \subseteq DOMAIN registry.attached \cup dropped
                      /\ conn[t].extensions \subseteq registry.extensions \cup dropped
  BY DEF SqliteInv, SettingsLast
<1>1. /\ busy' = [now |-> s, of |-> IF IsOpen(t) THEN [busy.of EXCEPT ![t] = s] ELSE busy.of]
      /\ fresh' = [u \in Threads |-> fresh[u] /\ u = t]
      /\ UNCHANGED <<registry, conn, dropped>>
  BY DEF SetTimeout
<1>2. Keeps(t) BY <1>0, <1>s, <1>1 DEF Keeps, IsOpen
<1> QED BY <1>2, KeepsKeeps

\* BEGIN and COMMIT.
LEMMA BeginKeeps == ASSUME SqliteInv, NEW t \in Threads, Begin(t) PROVE SqliteInv'
BY DEF SqliteInv, SqliteTyped, SettingsLast, IsOpen, Begin

\* Every step keeps the invariant.
LEMMA SqliteSteps == SqliteInv /\ [SqliteNext]_sqliteVars => SqliteInv'
<1> SUFFICES ASSUME SqliteInv, [SqliteNext]_sqliteVars PROVE SqliteInv' OBVIOUS
<1>1. CASE UNCHANGED sqliteVars BY <1>1 DEF SqliteInv, SqliteTyped, SettingsLast, IsOpen, sqliteVars
<1>2. CASE SqliteNext
  BY <1>2, ConnectKeeps, CloseKeeps, BeginKeeps, RegisterKeeps, UnregisterKeeps, AttachKeeps, DetachKeeps,
     LoadExtensionKeeps, UnloadExtensionKeeps, PragmaKeeps, SetTimeoutKeeps DEF SqliteNext
<1> QED BY <1>1, <1>2

\* A new connection has all that is registered, and no thread loses by reconnecting.
THEOREM SettingsSurvive == SqliteSpec => []SettingsLast
<1>1. SqliteInv => SettingsLast BY DEF SqliteInv
<1> QED BY <1>1, SqliteStarts, SqliteSteps, PTL DEF SqliteSpec

-----------------------------------------------------------------------------
(***************************************************************************)
(* KeyValueStore: what pop() returns.                                      *)
(***************************************************************************)

\* Values are numbered as they were written.
StoreTyped ==
    /\ writes \in Nat /\ changes \in Nat /\ DOMAIN call = Clients
    /\ \A c \in Clients : /\ call[c].at \in Nat /\ call[c].at <= changes
                          /\ call[c].value \in Nat /\ call[c].value <= writes
    /\ \A k \in DOMAIN table : table[k] \in Nat /\ table[k] <= writes
    /\ \A k, v : <<k, v>> \in popped => v \in Nat /\ v <= writes

\* The value a setdefault() is about to write was never in the store.
NewValues ==
    \A c \in Clients : call[c].op = "setdefault" =>
        /\ \A k \in DOMAIN table : table[k] # call[c].value
        /\ \A k : <<k, call[c].value>> \notin popped
        /\ \A d \in Clients \ {c} : call[d].op = "setdefault" => call[d].value # call[c].value

\* A pop() that finds nothing changed since it read still finds what it read.
SeenIsThere ==
    \A c \in Clients : call[c].op = "pop" /\ call[c].at = changes =>
        call[c].key \in DOMAIN table /\ table[call[c].key] = call[c].value

StoreInv == StoreTyped /\ (backend = "sqlite" => NewValues /\ SeenIsThere) /\ PopsApart

\* Outside of a transaction there is no call.
LEMMA IdleOp == Idle.op = "none" /\ Idle.at = 0 /\ Idle.value = 0
BY DEF Idle

\* The empty store.
LEMMA StoreStarts == StoreInit => StoreInv
<1> SUFFICES ASSUME StoreInit PROVE StoreInv OBVIOUS
<1>1. \A c \in Clients : call[c].op = "none" /\ call[c].at = 0 /\ call[c].value = 0 BY IdleOp DEF StoreInit
<1>2. StoreTyped BY <1>1 DEF StoreInit, StoreTyped
<1>3. NewValues /\ SeenIsThere BY <1>1 DEF NewValues, SeenIsThere
<1>4. PopsApart BY DEF StoreInit, PopsApart
<1> QED BY <1>2, <1>3, <1>4 DEF StoreInv

\* Statements that write a new value to some keys.
LEMMA WritesKeeps ==
    ASSUME StoreInv, NEW c \in Clients, NEW keys, Statement(c), Writes(keys)
    PROVE  StoreInv'
<1> USE DEF Statement, Writes, Upserted
<1>1. StoreTyped' BY DEF StoreInv, StoreTyped
<1>2. CASE backend = "sqlite"
  <2>1. NewValues' BY <1>2 DEF StoreInv, StoreTyped, NewValues
  <2>2. SeenIsThere' BY <1>2 DEF StoreInv, StoreTyped, SeenIsThere
  <2>3. PopsApart' BY <1>2 DEF StoreInv, StoreTyped, PopsApart
  <2> QED BY <1>1, <2>1, <2>2, <2>3 DEF StoreInv
<1>3. CASE backend # "sqlite" BY <1>1, <1>3 DEF StoreInv, PopsApart
<1> QED BY <1>2, <1>3

\* Statements that delete.
LEMMA DelItemKeeps ==
    ASSUME StoreInv, NEW c \in Clients, NEW keys, DelItem(c, keys)
    PROVE  StoreInv'
<1> USE DEF Statement, DelItem, Gone, Restrict
<1>1. StoreTyped' BY DEF StoreInv, StoreTyped
<1>2. CASE backend = "sqlite"
  <2>1. NewValues' BY <1>2 DEF StoreInv, StoreTyped, NewValues
  <2>2. SeenIsThere' BY <1>2 DEF StoreInv, StoreTyped, SeenIsThere
  <2>3. PopsApart' BY <1>2 DEF StoreInv, StoreTyped, PopsApart
  <2> QED BY <1>1, <2>1, <2>2, <2>3 DEF StoreInv
<1>3. CASE backend # "sqlite" BY <1>1, <1>3 DEF StoreInv, PopsApart
<1> QED BY <1>2, <1>3

\* setdefault() that found nothing.
LEMMA SetDefaultKeeps ==
    ASSUME StoreInv, NEW c \in Clients, NEW k, SetDefault(c, k)
    PROVE  StoreInv'
<1> USE DEF SetDefault
<1>0. call[c].op = "none" BY IdleOp
<1>1. StoreTyped' BY DEF StoreInv, StoreTyped
<1>2. CASE backend = "sqlite"
  <2>1. NewValues' BY <1>0, <1>2 DEF StoreInv, StoreTyped, NewValues
  <2>2. SeenIsThere' BY <1>2 DEF StoreInv, StoreTyped, SeenIsThere
  <2>3. PopsApart' BY <1>2 DEF StoreInv, StoreTyped, PopsApart
  <2> QED BY <1>1, <2>1, <2>2, <2>3 DEF StoreInv
<1>3. CASE backend # "sqlite" BY <1>1, <1>3 DEF StoreInv, PopsApart
<1> QED BY <1>2, <1>3

\* setdefault() writes what it did not find.
LEMMA SetDefaultWritesKeeps ==
    ASSUME StoreInv, NEW c \in Clients, SetDefaultWrites(c)
    PROVE  StoreInv'
<1> USE DEF SetDefaultWrites, Upserted
<1>0. call'[c] = Idle /\ DOMAIN call' = Clients /\ \A d \in Clients \ {c} : call'[d] = call[d]
  BY DEF StoreInv, StoreTyped
<1>1. StoreTyped' BY <1>0, IdleOp DEF StoreInv, StoreTyped, NewValues
<1>2. CASE backend = "sqlite"
  <2>1. NewValues' BY <1>0, <1>2, IdleOp DEF StoreInv, StoreTyped, NewValues
  <2>2. SeenIsThere' BY <1>0, <1>2, IdleOp DEF StoreInv, StoreTyped, SeenIsThere
  <2>3. PopsApart' BY <1>2 DEF StoreInv, StoreTyped, PopsApart, NewValues
  <2> QED BY <1>1, <2>1, <2>2, <2>3 DEF StoreInv
<1>3. CASE backend # "sqlite" BY <1>1, <1>3 DEF StoreInv, PopsApart
<1> QED BY <1>2, <1>3

\* pop() reads.
LEMMA PopKeeps ==
    ASSUME StoreInv, NEW c \in Clients, NEW k, Pop(c, k)
    PROVE  StoreInv'
<1> USE DEF Pop
<1>1. StoreTyped' BY DEF StoreInv, StoreTyped
<1>2. CASE backend = "sqlite"
  <2>1. NewValues' BY <1>2 DEF StoreInv, StoreTyped, NewValues
  <2>2. SeenIsThere' BY <1>2 DEF StoreInv, StoreTyped, SeenIsThere
  <2>3. PopsApart' BY <1>2 DEF StoreInv, StoreTyped, PopsApart
  <2> QED BY <1>1, <2>1, <2>2, <2>3 DEF StoreInv
<1>3. CASE backend # "sqlite" BY <1>1, <1>3 DEF StoreInv, PopsApart
<1> QED BY <1>2, <1>3

\* pop() deletes what it read.
LEMMA PopDeletesKeeps ==
    ASSUME StoreInv, NEW c \in Clients, PopDeletes(c)
    PROVE  StoreInv'
<1> DEFINE k == call[c].key
<1>0. /\ call[c].op = "pop" /\ (backend = "sqlite" => call[c].at = changes)
      /\ call' = [call EXCEPT ![c] = Idle] /\ UNCHANGED <<backend, writes>>
      /\ \/ /\ k \in DOMAIN table /\ table' = Gone({k}) /\ changes' = changes + 1
            /\ popped' = popped \cup {<<k, call[c].value>>}
            /\ lost' = lost \cup ({table[k]} \ {call[c].value})
            /\ answers' = IF <<k, call[c].value>> \in popped THEN "twice" ELSE answers
         \/ UNCHANGED <<table, changes, popped, lost, answers>>
  BY DEF PopDeletes, AtomicSnapshot
<1>1. call'[c] = Idle /\ DOMAIN call' = Clients /\ \A d \in Clients \ {c} : call'[d] = call[d]
  BY <1>0 DEF StoreInv, StoreTyped
<1>2. /\ changes \in Nat /\ changes' \in Nat /\ changes <= changes'
      /\ changes' # changes \/ UNCHANGED <<table, changes, popped, lost, answers>>
      /\ \A n \in DOMAIN table' : n \in DOMAIN table /\ table'[n] = table[n]
      /\ \A n, v : <<n, v>> \in popped' => <<n, v>> \in popped \/ (n = k /\ v = call[c].value /\ k \notin DOMAIN table')
  BY <1>0 DEF StoreInv, StoreTyped, Gone, Restrict
<1>3. StoreTyped'
  <2>1. \A d \in Clients : /\ call'[d].at \in Nat /\ call'[d].at <= changes'
                          /\ call'[d].value \in Nat /\ call'[d].value <= writes'
    BY <1>0, <1>1, <1>2, IdleOp DEF StoreInv, StoreTyped
  <2>2. \A n \in DOMAIN table' : table'[n] \in Nat /\ table'[n] <= writes' BY <1>0, <1>2 DEF StoreInv, StoreTyped
  <2>3. \A n, v : <<n, v>> \in popped' => v \in Nat /\ v <= writes' BY <1>0, <1>2 DEF StoreInv, StoreTyped
  <2> QED BY <1>0, <1>1, <1>2, <2>1, <2>2, <2>3 DEF StoreInv, StoreTyped
<1>4. CASE backend = "sqlite"
  <2>1. k \in DOMAIN table /\ table[k] = call[c].value BY <1>0, <1>4 DEF StoreInv, SeenIsThere
  <2>2. NewValues'
    <3> SUFFICES ASSUME NEW d \in Clients, call'[d].op = "setdefault"
                 PROVE  /\ \A n \in DOMAIN table' : table'[n] # call'[d].value
                        /\ \A n : <<n, call'[d].value>> \notin popped'
                        /\ \A e \in Clients \ {d} : call'[e].op = "setdefault" => call'[e].value # call'[d].value
      BY DEF NewValues
    <3>1. d # c /\ call'[d] = call[d] BY <1>1, IdleOp
    <3>2. /\ \A n \in DOMAIN table : table[n] # call[d].value
          /\ \A n : <<n, call[d].value>> \notin popped
          /\ \A e \in Clients \ {d} : call[e].op = "setdefault" => call[e].value # call[d].value
      BY <1>4, <3>1 DEF StoreInv, NewValues
    <3>3. \A e \in Clients : call'[e].op = "setdefault" => call'[e] = call[e] BY <1>1, IdleOp
    <3> QED BY <1>2, <2>1, <3>1, <3>2, <3>3
  <2>3. SeenIsThere'
    <3> SUFFICES ASSUME NEW d \in Clients, call'[d].op = "pop", call'[d].at = changes'
                 PROVE  call'[d].key \in DOMAIN table' /\ table'[call'[d].key] = call'[d].value
      BY DEF SeenIsThere
    <3>1. d # c /\ call'[d] = call[d] BY <1>1, IdleOp
    <3>2. call[d].at \in Nat /\ call[d].at <= changes BY DEF StoreInv, StoreTyped
    <3>3. changes' = changes BY <1>2, <3>1, <3>2
    <3>4. table' = table BY <1>2, <3>3
    <3> QED BY <1>4, <3>1, <3>3, <3>4 DEF StoreInv, SeenIsThere
  <2>4. PopsApart' BY <1>0, <1>2, <1>4, <2>1 DEF StoreInv, PopsApart
  <2> QED BY <1>3, <2>2, <2>3, <2>4 DEF StoreInv
<1>5. CASE backend # "sqlite" BY <1>0, <1>3, <1>5 DEF StoreInv, PopsApart
<1> QED BY <1>4, <1>5

\* pop() that fails.
LEMMA PopFailsKeeps ==
    ASSUME StoreInv, NEW c \in Clients, PopFails(c)
    PROVE  StoreInv'
<1> USE DEF PopFails
<1>0. call'[c] = Idle /\ DOMAIN call' = Clients /\ \A d \in Clients \ {c} : call'[d] = call[d]
  BY DEF StoreInv, StoreTyped
<1>1. StoreTyped' BY <1>0, IdleOp DEF StoreInv, StoreTyped
<1>2. CASE backend = "sqlite"
  <2>1. NewValues' BY <1>0, <1>2, IdleOp DEF StoreInv, NewValues
  <2>2. SeenIsThere' BY <1>0, <1>2, IdleOp DEF StoreInv, SeenIsThere
  <2>3. PopsApart' BY DEF StoreInv, PopsApart
  <2> QED BY <1>1, <2>1, <2>2, <2>3 DEF StoreInv
<1>3. CASE backend # "sqlite" BY <1>1, <1>3 DEF StoreInv, PopsApart
<1> QED BY <1>2, <1>3

\* Every step keeps the invariant.
LEMMA StoreSteps == StoreInv /\ [StoreNext]_kvVars => StoreInv'
<1> SUFFICES ASSUME StoreInv, [StoreNext]_kvVars PROVE StoreInv' OBVIOUS
<1>1. CASE UNCHANGED kvVars
  BY <1>1 DEF StoreInv, StoreTyped, NewValues, SeenIsThere, PopsApart, kvVars
<1>2. CASE StoreNext
  BY <1>2, WritesKeeps, DelItemKeeps, SetDefaultKeeps, SetDefaultWritesKeeps, PopKeeps, PopDeletesKeeps,
     PopFailsKeeps DEF StoreNext, SetItem, SetExpression
<1> QED BY <1>1, <1>2

\* On SQLite what was written is popped once, for any number of clients, keys and values.
THEOREM PopsAreApart == StoreSpec => []PopsApart
<1>1. StoreInv => PopsApart BY DEF StoreInv
<1> QED BY <1>1, StoreStarts, StoreSteps, PTL DEF StoreSpec

(***************************************************************************)
(* ManyToMany: what both sides show is what their statements ask for.      *)
(***************************************************************************)

\* The pairs of instances that the rows of the through model relate.
Told(rs) == {{r[FkTo(m)] : m \in Sides} : r \in rs}

\* A row refers to an instance of each of the models.
Relates(r) == \A m \in Sides : r[FkTo(m)] \in Of[m]

\* What a set has still to insert.
AskedSet(p) == p.side \in Sides /\ p.of \in Of[p.side] /\ p.set \subseteq Of[Other(p.side)]

ManyInv ==
    /\ through \in Throughs
    /\ exact \in BOOLEAN
    /\ \A r \in rows : Relates(r)
    /\ pending = [c \in Askers |-> pending[c]]
    /\ \A c \in Askers : pending[c] # NoSet => AskedSet(pending[c])
    /\ exact /\ (\A c \in Askers : pending[c] = NoSet) => relation = Told(rows)
    /\ \A c \in Askers : exact /\ pending[c] # NoSet =>
         /\ \A d \in Askers \ {c} : pending[d] = NoSet
         /\ Told(rows) = relation \ PairsOf(pending[c].of, Of[Other(pending[c].side)])

\* A foreign key to each model is there, and they are not the same.
LEMMA KeysFound ==
    ASSUME through \in Throughs
    PROVE  /\ \A m \in Sides : FkTo(m) \in Fks
           /\ \A m, n \in Sides : FkTo(m) = FkTo(n) => m = n
<1> DEFINE place(m) == CHOOSE i \in DOMAIN through : through[i].rel = m
                           /\ \A j \in 1..(i - 1) : through[j].rel # m
<1>2. \A m \in Sides : place(m) \in DOMAIN through /\ through[place(m)].rel = m
  <2> SUFFICES ASSUME NEW m \in Sides
               PROVE  \E i \in DOMAIN through : through[i].rel = m /\ \A j \in 1..(i - 1) : through[j].rel # m
    OBVIOUS
  <2> QED BY ManyAssumption
<1> HIDE DEF place
<1>3. \A m \in Sides : FkTo(m) = through[place(m)].key BY DEF FkTo, place
<1>4. \A i, j \in DOMAIN through : through[i].key = through[j].key => i = j BY ManyAssumption
<1> QED BY <1>2, <1>3, <1>4 DEF Fks

\* There are two sides, and no instance is on both.
LEMMA TwoSides ==
    ASSUME NEW side \in Sides
    PROVE  /\ Other(side) \in Sides /\ Other(side) # side /\ Other(Other(side)) = side
           /\ Sides = {side, Other(side)} /\ Of[side] \cap Of[Other(side)] = {}
<1>1. PICK a, b \in Sides : a # b /\ Sides = {a, b} /\ Of[a] \cap Of[b] = {} BY ManyAssumption
<1>2. Other(a) = b /\ Other(b) = a BY <1>1 DEF Other
<1> QED BY <1>1, <1>2

\* The pair of a row, seen from a side.
LEMMA PairSeen ==
    ASSUME NEW side \in Sides, NEW r
    PROVE  {r[FkTo(m)] : m \in Sides} = {r[SrcFk(side)], r[DestFk(side)]}
BY TwoSides DEF SrcFk, DestFk

\* The pair of a row that relates two instances.
LEMMA PairMade ==
    ASSUME through \in Throughs, NEW side \in Sides, NEW x \in Of[side], NEW y \in Of[Other(side)]
    PROVE  /\ Relates(ThroughRow(side, x, y))
           /\ {ThroughRow(side, x, y)[FkTo(m)] : m \in Sides} = {x, y}
           /\ ThroughRow(side, x, y)[SrcFk(side)] = x
<1> DEFINE r == ThroughRow(side, x, y)
<1>1. /\ Other(side) \in Sides /\ Sides = {side, Other(side)} /\ Other(side) # side BY TwoSides
<1>2. FkTo(side) \in Fks /\ FkTo(Other(side)) \in Fks /\ FkTo(side) # FkTo(Other(side)) BY <1>1, KeysFound
<1>3. r[FkTo(side)] = x /\ r[FkTo(Other(side))] = y BY <1>2 DEF ThroughRow, SrcFk, DestFk
<1> HIDE DEF r
<1>4. Relates(r) BY <1>1, <1>3 DEF Relates
<1>5. {r[FkTo(m)] : m \in Sides} = {x, y} BY <1>3, PairSeen DEF SrcFk, DestFk
<1>6. r[SrcFk(side)] = x BY <1>3 DEF SrcFk
<1> QED BY <1>4, <1>5, <1>6 DEF r

\* Two pairs of instances, one of each side, are the same when their members are.
LEMMA SamePair ==
    ASSUME NEW side \in Sides, NEW x \in Of[side], NEW u \in Of[side],
           NEW y \in Of[Other(side)], NEW v \in Of[Other(side)], {x, y} = {u, v}
    PROVE  x = u /\ y = v
BY TwoSides

\* Rows that are inserted relate those pairs too.
LEMMA ToldMore ==
    ASSUME through \in Throughs, NEW side \in Sides, NEW x \in Of[side],
           NEW set, set \subseteq Of[Other(side)], \A r \in rows : Relates(r)
    PROVE  /\ Told(WithRows(side, x, set)) = Told(rows) \cup PairsOf(x, set)
           /\ \A r \in WithRows(side, x, set) : Relates(r)
<1> DEFINE pair(r) == {r[FkTo(m)] : m \in Sides}
           new == {ThroughRow(side, x, y) : y \in set}
<1>1. \A y \in set : Relates(ThroughRow(side, x, y)) /\ pair(ThroughRow(side, x, y)) = {x, y} BY PairMade
<1>2. Told(rows) = {pair(r) : r \in rows} /\ Told(rows \cup new) = {pair(r) : r \in rows \cup new} BY DEF Told
<1> HIDE DEF pair
<1>3. {pair(r) : r \in new} = {{x, y} : y \in set} BY <1>1
<1> HIDE DEF new
<1>4. {pair(r) : r \in rows \cup new} = {pair(r) : r \in rows} \cup {pair(r) : r \in new} OBVIOUS
<1>5. \A r \in new : Relates(r) BY <1>1 DEF new
<1> QED BY <1>2, <1>3, <1>4, <1>5 DEF WithRows, PairsOf, new

\* Rows that are deleted relate their pairs no more.
LEMMA ToldLess ==
    ASSUME NEW side \in Sides, NEW x \in Of[side],
           NEW set, set \subseteq Of[Other(side)], \A r \in rows : Relates(r)
    PROVE  Told(Removed(side, x, set)) = Told(rows) \ PairsOf(x, set)
<1> DEFINE pair(r) == {r[FkTo(m)] : m \in Sides}
           gone(r) == r[SrcFk(side)] = x /\ r[DestFk(side)] \in set
<1>1. \A r \in rows : (pair(r) \in PairsOf(x, set)) <=> gone(r)
  <2> SUFFICES ASSUME NEW r \in rows PROVE (pair(r) \in PairsOf(x, set)) <=> gone(r) OBVIOUS
  <2>1. pair(r) = {r[SrcFk(side)], r[DestFk(side)]} BY PairSeen
  <2>2. r[SrcFk(side)] \in Of[side] /\ r[DestFk(side)] \in Of[Other(side)]
    BY TwoSides DEF Relates, SrcFk, DestFk
  <2> HIDE DEF pair
  <2>3. ASSUME NEW y \in set, pair(r) = {x, y} PROVE gone(r)
    <3>1. y \in Of[Other(side)] BY <2>3
    <3> QED BY <2>1, <2>2, <2>3, <3>1, SamePair
  <2>4. ASSUME gone(r) PROVE pair(r) \in PairsOf(x, set) BY <2>1, <2>4 DEF PairsOf
  <2> QED BY <2>3, <2>4 DEF PairsOf
<1>2. Told(rows) = {pair(r) : r \in rows} BY DEF Told
<1>3. Told(Removed(side, x, set)) = {pair(r) : r \in {s \in rows : ~gone(s)}} BY DEF Told, Removed
<1> HIDE DEF pair, gone
<1> QED BY <1>1, <1>2, <1>3

\* Clearing removes whatever an instance is related to.
LEMMA ToldNone ==
    ASSUME NEW side \in Sides, NEW x \in Of[side], \A r \in rows : Relates(r)
    PROVE  /\ Told(Cleared(side, x)) = Told(rows) \ PairsOf(x, Of[Other(side)])
           /\ \A r \in Cleared(side, x) : Relates(r)
<1>1. \A r \in rows : r[DestFk(side)] \in Of[Other(side)] BY TwoSides DEF Relates, DestFk
<1>2. Cleared(side, x) = Removed(side, x, Of[Other(side)]) BY <1>1 DEF Cleared, Removed
<1> QED BY <1>2, ToldLess DEF Cleared

\* What both sides show together.
LEMMA ShownTold ==
    ASSUME \A r \in rows : Relates(r)
    PROVE  Told(rows) = UNION {UNION {PairsOf(x, Shown(side, x)) : x \in Of[side]} : side \in Sides}
<1> DEFINE all == UNION {UNION {PairsOf(x, Shown(side, x)) : x \in Of[side]} : side \in Sides}
<1>1. ASSUME NEW r \in rows PROVE {r[FkTo(m)] : m \in Sides} \in all
  <2>1. PICK side \in Sides : TRUE BY ManyAssumption
  <2> DEFINE x == r[SrcFk(side)]
             y == r[DestFk(side)]
  <2>2. x \in Of[side] BY <1>1 DEF Relates, SrcFk
  <2>3. y \in Shown(side, x) BY <1>1 DEF Shown
  <2>4. {r[FkTo(m)] : m \in Sides} = {x, y} BY PairSeen
  <2>5. {x, y} \in PairsOf(x, Shown(side, x)) BY <2>3 DEF PairsOf
  <2> HIDE DEF x, y
  <2>6. {x, y} \in UNION {PairsOf(z, Shown(side, z)) : z \in Of[side]} BY <2>2, <2>5
  <2>7. {x, y} \in all BY <2>6
  <2> QED BY <2>4, <2>7
<1>2. ASSUME NEW p \in all PROVE p \in Told(rows)
  <2>0. PICK side \in Sides : \E x \in Of[side] : p \in PairsOf(x, Shown(side, x)) BY <1>2
  <2>1. PICK x \in Of[side] : p \in PairsOf(x, Shown(side, x)) BY <2>0
  <2>2. PICK y \in Shown(side, x) : p = {x, y} BY <2>1 DEF PairsOf
  <2>3. PICK r \in rows : r[SrcFk(side)] = x /\ r[DestFk(side)] = y BY <2>2 DEF Shown
  <2>4. {r[FkTo(m)] : m \in Sides} = {x, y} BY <2>3, PairSeen
  <2> QED BY <2>2, <2>4 DEF Told
<1> HIDE DEF all
<1>3. Told(rows) \subseteq all BY <1>1 DEF Told
<1> QED BY <1>2, <1>3 DEF all

\* No row relates anything at first.
LEMMA ManyStarts == ManyInit => ManyInv
<1> SUFFICES ASSUME ManyInit PROVE ManyInv OBVIOUS
<1>1. Told({}) = {} BY DEF Told
<1>2. \A c \in Askers : pending[c] = NoSet BY DEF ManyInit
<1> QED BY <1>1, <1>2 DEF ManyInit, ManyInv

\* A statement of one client, while no other one's set is under way.
LEMMA AskKeeps ==
    ASSUME ManyInv, NEW c \in Askers, NEW side, NEW x, Asks(c, side, x),
           UNCHANGED <<through, pending>>, exact' = (exact /\ ~Disturbed(c)),
           \A r \in rows' : Relates(r)',
           exact /\ relation = Told(rows) => relation' = Told(rows)'
    PROVE  ManyInv'
<1>1. pending[c] = NoSet BY DEF Asks
<1>2. exact \in BOOLEAN BY DEF ManyInv
<1>3. exact' \in BOOLEAN /\ (exact' => exact /\ \A d \in Askers : pending[d] = NoSet)
  BY <1>1, <1>2 DEF Disturbed
<1>4. exact' => relation' = Told(rows)' BY <1>3 DEF ManyInv
<1> QED BY <1>3, <1>4 DEF ManyInv, AskedSet, Other

\* Each step keeps the invariant.
LEMMA ManySteps == ASSUME ManyInv, [ManyNext]_manyVars PROVE ManyInv'
<1>0. /\ through \in Throughs /\ exact \in BOOLEAN /\ \A r \in rows : Relates(r)
      /\ pending = [c \in Askers |-> pending[c]]
  BY DEF ManyInv
<1>1. ASSUME NEW c \in Askers, SetAdds(c) PROVE ManyInv'
  <2> DEFINE p == pending[c]
  <2>1. /\ p # NoSet /\ pending' = [pending EXCEPT ![c] = NoSet]
        /\ rows' = IF Fits(p.side, p.of, p.set) THEN WithRows(p.side, p.of, p.set) ELSE rows
        /\ relation' = (relation \ PairsOf(p.of, Of[Other(p.side)])) \cup PairsOf(p.of, p.set)
        /\ UNCHANGED <<through, unique, exact, calls>>
    BY <1>1 DEF SetAdds
  <2>2. AskedSet(p) BY <2>1 DEF ManyInv
  <2>3. /\ Told(WithRows(p.side, p.of, p.set)) = Told(rows) \cup PairsOf(p.of, p.set)
        /\ \A r \in WithRows(p.side, p.of, p.set) : Relates(r)
    BY <1>0, <2>2, ToldMore DEF AskedSet
  <2>4. \A r \in rows' : Relates(r) BY <1>0, <2>1, <2>3
  <2>5. \A r \in rows' : Relates(r)' BY <2>1, <2>4 DEF Relates, FkTo
  <2>6. /\ pending' = [d \in Askers |-> pending'[d]] /\ pending'[c] = NoSet
        /\ \A d \in Askers \ {c} : pending'[d] = pending[d]
    BY <1>0, <2>1
  <2>7. exact => relation' = Told(rows)'
    <3> SUFFICES ASSUME exact PROVE relation' = Told(rows)' OBVIOUS
    <3>1. Told(rows) = relation \ PairsOf(p.of, Of[Other(p.side)]) BY <2>1 DEF ManyInv
    <3>2. Fits(p.side, p.of, p.set)
      <4> SUFFICES ASSUME NEW y \in p.set, ThroughRow(p.side, p.of, y) \in rows PROVE FALSE BY DEF Fits
      <4> DEFINE r == ThroughRow(p.side, p.of, y)
      <4>1. y \in Of[Other(p.side)] BY <2>2 DEF AskedSet
      <4>0. p.side \in Sides /\ p.of \in Of[p.side] BY <2>2 DEF AskedSet
      <4> HIDE DEF p
      <4>2. {r[FkTo(m)] : m \in Sides} = {p.of, y} BY <1>0, <4>0, <4>1, PairMade
      <4> HIDE DEF r
      <4>3. {r[FkTo(m)] : m \in Sides} \in Told(rows) BY DEF Told, r
      <4>4. {p.of, y} \in PairsOf(p.of, Of[Other(p.side)]) BY <4>1 DEF PairsOf
      <4> QED BY <3>1, <4>2, <4>3, <4>4
    <3>3. rows' = WithRows(p.side, p.of, p.set) BY <2>1, <3>2
    <3>4. Told(rows)' = Told(rows') BY <2>1 DEF Told, FkTo
    <3> QED BY <2>1, <2>3, <3>1, <3>3, <3>4
  <2>8. exact /\ (\E d \in Askers \ {c} : pending[d] # NoSet) => FALSE BY <2>1 DEF ManyInv
  <2> QED BY <1>0, <2>1, <2>5, <2>6, <2>7, <2>8 DEF ManyInv, AskedSet, Other
<1>2. ASSUME NEW c \in Askers, SetStops(c) PROVE ManyInv'
  <2>1. /\ pending' = [pending EXCEPT ![c] = NoSet] /\ exact' = FALSE
        /\ UNCHANGED <<through, unique, rows, relation, calls>>
    BY <1>2 DEF SetStops
  <2>2. /\ pending' = [d \in Askers |-> pending'[d]] /\ pending'[c] = NoSet
        /\ \A d \in Askers \ {c} : pending'[d] = pending[d]
    BY <1>0, <2>1
  <2>3. \A r \in rows' : Relates(r)' BY <1>0, <2>1 DEF Relates, FkTo
  <2> QED BY <1>0, <2>1, <2>2, <2>3 DEF ManyInv, AskedSet, Other
<1>3. ASSUME NEW c \in Askers, NEW side \in Sides, NEW x \in Of[side], Clear(c, side, x) PROVE ManyInv'
  <2>1. /\ Asks(c, side, x) /\ rows' = Cleared(side, x)
        /\ relation' = relation \ PairsOf(x, Of[Other(side)])
        /\ exact' = (exact /\ ~Disturbed(c)) /\ UNCHANGED <<through, unique, pending>>
    BY <1>3 DEF Clear
  <2>2. /\ Told(Cleared(side, x)) = Told(rows) \ PairsOf(x, Of[Other(side)])
        /\ \A r \in Cleared(side, x) : Relates(r)
    BY <1>0, ToldNone
  <2>3. Told(rows)' = Told(rows') BY <2>1 DEF Told, FkTo
  <2>4. \A r \in rows' : Relates(r)' BY <2>1, <2>2 DEF Relates, FkTo
  <2>5. relation = Told(rows) => relation' = Told(rows)' BY <2>1, <2>2, <2>3
  <2> QED BY <2>1, <2>4, <2>5, AskKeeps
<1>4. ASSUME NEW c \in Askers, NEW side \in Sides, NEW x \in Of[side],
             NEW set \in (SUBSET Of[Other(side)]) \ {{}}, Add(c, side, x, set)
      PROVE  ManyInv'
  <2>1. /\ Asks(c, side, x)
        /\ rows' = IF Fits(side, x, set) THEN WithRows(side, x, set) ELSE rows
        /\ relation' = IF Fits(side, x, set) THEN relation \cup PairsOf(x, set) ELSE relation
        /\ exact' = (exact /\ ~Disturbed(c)) /\ UNCHANGED <<through, unique, pending>>
    BY <1>4 DEF Add
  <2>2. /\ Told(WithRows(side, x, set)) = Told(rows) \cup PairsOf(x, set)
        /\ \A r \in WithRows(side, x, set) : Relates(r)
    BY <1>0, ToldMore
  <2>3. Told(rows)' = Told(rows') BY <2>1 DEF Told, FkTo
  <2>4. \A r \in rows' : Relates(r) BY <1>0, <2>1, <2>2
  <2>5. \A r \in rows' : Relates(r)' BY <2>1, <2>4 DEF Relates, FkTo
  <2>6. relation = Told(rows) => relation' = Told(rows)' BY <2>1, <2>2, <2>3
  <2> QED BY <2>1, <2>5, <2>6, AskKeeps
<1>5. ASSUME NEW c \in Askers, NEW side \in Sides, NEW x \in Of[side],
             NEW set \in (SUBSET Of[Other(side)]) \ {{}}, RemoveThese(c, side, x, set)
      PROVE  ManyInv'
  <2>1. /\ Asks(c, side, x) /\ rows' = Removed(side, x, set) /\ relation' = relation \ PairsOf(x, set)
        /\ exact' = (exact /\ ~Disturbed(c)) /\ UNCHANGED <<through, unique, pending>>
    BY <1>5 DEF RemoveThese
  <2>2. Told(Removed(side, x, set)) = Told(rows) \ PairsOf(x, set) BY <1>0, ToldLess
  <2>3. Told(rows)' = Told(rows') BY <2>1 DEF Told, FkTo
  <2>4. \A r \in rows' : Relates(r)' BY <1>0, <2>1 DEF Relates, FkTo, Removed
  <2>5. relation = Told(rows) => relation' = Told(rows)' BY <2>1, <2>2, <2>3
  <2> QED BY <2>1, <2>4, <2>5, AskKeeps
<1>6. ASSUME NEW c \in Askers, NEW side \in Sides, NEW x \in Of[side],
             NEW set \in (SUBSET Of[Other(side)]) \ {{}}, Set(c, side, x, set)
      PROVE  ManyInv'
  <2> DEFINE p == [side |-> side, of |-> x, set |-> set]
  <2>1. /\ Asks(c, side, x) /\ rows' = Cleared(side, x) /\ pending' = [pending EXCEPT ![c] = p]
        /\ exact' = (exact /\ ~Disturbed(c)) /\ UNCHANGED <<through, unique, relation>>
    BY <1>6 DEF Set
  <2>2. pending[c] = NoSet BY <2>1 DEF Asks
  <2>3. /\ p # NoSet /\ p.side = side /\ p.of = x /\ AskedSet(p)
    <3>1. p.side = side /\ p.of = x /\ p.set = set OBVIOUS
    <3> HIDE DEF p
    <3>2. AskedSet(p) BY <3>1 DEF AskedSet
    <3>3. set # {} /\ NoSet.set = {} BY DEF NoSet
    <3> QED BY <3>1, <3>2, <3>3
  <2> HIDE DEF p
  <2>4. /\ Told(Cleared(side, x)) = Told(rows) \ PairsOf(x, Of[Other(side)])
        /\ \A r \in Cleared(side, x) : Relates(r)
    BY <1>0, ToldNone
  <2>5. Told(rows)' = Told(rows') BY <2>1 DEF Told, FkTo
  <2>6. \A r \in rows' : Relates(r)' BY <2>1, <2>4 DEF Relates, FkTo
  <2>7. /\ pending' = [d \in Askers |-> pending'[d]] /\ pending'[c] = p
        /\ \A d \in Askers \ {c} : pending'[d] = pending[d]
    BY <1>0, <2>1
  <2>8. exact' \in BOOLEAN /\ (exact' => exact /\ \A d \in Askers : pending[d] = NoSet)
    BY <1>0, <2>1, <2>2 DEF Disturbed
  <2>9. exact' => Told(rows)' = relation' \ PairsOf(p.of, Of[Other(p.side)])
    <3>1. exact' => relation = Told(rows) BY <2>8 DEF ManyInv
    <3> QED BY <2>1, <2>3, <2>4, <2>5, <3>1
  <2>10. \A d \in Askers : pending'[d] # NoSet => AskedSet(pending'[d]) BY <2>3, <2>7 DEF ManyInv
  <2> QED BY <1>0, <2>1, <2>3, <2>6, <2>7, <2>8, <2>9, <2>10 DEF ManyInv
<1>7. CASE UNCHANGED manyVars
  <2>1. UNCHANGED <<through, rows, pending, relation, exact>> BY <1>7 DEF manyVars
  <2>2. \A r : Relates(r)' <=> Relates(r) BY <2>1 DEF Relates, FkTo
  <2>3. Told(rows)' = Told(rows) BY <2>1 DEF Told, FkTo
  <2> QED BY <2>1, <2>2, <2>3 DEF ManyInv, AskedSet, Other
<1> QED BY <1>1, <1>2, <1>3, <1>4, <1>5, <1>6, <1>7 DEF ManyNext

\* Both sides of a many-to-many field show the same, and what the statements asked for,
\* for any instances, through models and clients, however their statements interleave.
THEOREM SidesAlwaysAgree == ManySpec => []SidesAgree
<1>1. ManyInv => SidesAgree
  <2> SUFFICES ASSUME ManyInv PROVE SidesAgree OBVIOUS
  <2>1. \A r \in rows : Relates(r) BY DEF ManyInv
  <2>2. ASSUME NEW side \in Sides, NEW x \in Of[side], NEW y \in Of[Other(side)]
        PROVE  y \in Shown(side, x) <=> x \in Shown(Other(side), y)
    <3>1. DestFk(Other(side)) = SrcFk(side) /\ SrcFk(Other(side)) = DestFk(side) BY TwoSides DEF SrcFk, DestFk
    <3>2. y \in Shown(side, x) <=> \E r \in rows : r[SrcFk(side)] = x /\ r[DestFk(side)] = y BY DEF Shown
    <3>3. x \in Shown(Other(side), y) <=> \E r \in rows : r[DestFk(side)] = y /\ r[SrcFk(side)] = x
      BY <3>1 DEF Shown
    <3> QED BY <3>2, <3>3
  <2>3. exact /\ (\A c \in Askers : pending[c] = NoSet) =>
          relation = UNION {UNION {PairsOf(x, Shown(side, x)) : x \in Of[side]} : side \in Sides}
    BY <2>1, ShownTold DEF ManyInv
  <2> QED BY <2>2, <2>3 DEF SidesAgree
<1> QED BY <1>1, ManyStarts, ManySteps, PTL DEF ManySpec
=============================================================================
