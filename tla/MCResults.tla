------------------------------ MODULE MCResults ------------------------------
(***************************************************************************)
(* Reading results: three components, of which a behaviour exercises one:  *)
(* generators that stream rows, whose variables and constants are those of *)
(* Streaming, the objects of joined rows, and eager loading.               *)
(***************************************************************************)
EXTENDS Streaming, TLC

VARIABLES
    part,   \* the component of this behaviour
    stage, joins, cols, plan, row, object,
    db, call, built, got, asked, list, ref, writes

graphVars == <<stage, joins, cols, plan, row, object>>
eagerVars == <<db, call, built, got, asked, list, ref, writes>>

-----------------------------------------------------------------------------
\* Three joins: a chain, a star, or both.
Graph == INSTANCE ModelCursor WITH
    Root <- "a", Others <- <<"b", "c", "d">>, Kinds <- {"fk", "backref", "dict"},
    Columns <- {"none", "key", "other"}

\* Users, their tweets, which have an editor too, and the likes of tweets.
FkUser == [name |-> "user", of |-> "tweet", to |-> "user"]
FkEditor == [name |-> "editor", of |-> "tweet", to |-> "user"]
FkTweet == [name |-> "tweet", of |-> "like", to |-> "tweet"]
NoFk == [f \in {} |-> 0]

Tweet(i, user, editor) == [id |-> i, fk |-> (FkUser :> user @@ FkEditor :> editor)]
Like(i, tweet) == [id |-> i, fk |-> (FkTweet :> tweet)]

Contents ==
    {("user" :> <<[id |-> 1, fk |-> NoFk], [id |-> 2, fk |-> NoFk]>>)
     @@ ("tweet" :> <<Tweet(1, u, e), Tweet(2, v, 0)>>)
     @@ ("like" :> <<Like(1, a), Like(2, b)>>) :
        u \in 0 .. 2, e \in 0 .. 2, v \in 0 .. 2, a \in 0 .. 2, b \in 1 .. 2}

Query(model, target, fk) == [model |-> model, target |-> target, fk |-> fk]

\* Down from users, up from likes, and from tweets in both directions.
QueryLists ==
    {<<Query("user", "any", ""), Query("tweet", "any", "user"), Query("like", "any", "tweet")>>,
     <<Query("tweet", "any", ""), Query("user", "any", "editor"), Query("like", "tweet", "tweet")>>,
     <<Query("like", "any", ""), Query("tweet", "any", "tweet"), Query("user", "any", "user")>>}

Calls ==
    {c \in [way : {"prefetch", "where", "materialize"}, limit : 1 .. 2, perParent : 0 .. 1,
            queries : QueryLists] : c.way = "prefetch" => c.perParent = 0}

Eager == INSTANCE EagerLoading WITH Fks <- {FkUser, FkEditor, FkTweet}, Writes <- 1

-----------------------------------------------------------------------------
ResultsInit ==
    /\ part \in {"stream", "graph", "eager"}
    /\ Init /\ Graph!Init /\ Eager!Init
    /\ part # "stream" => driver = "aiosqlite"

StreamStep == part = "stream" /\ Next /\ UNCHANGED <<part, graphVars, eagerVars>>
GraphStep == part = "graph" /\ Graph!Next /\ UNCHANGED <<part, vars, eagerVars>>
EagerStep == part = "eager" /\ Eager!Next /\ UNCHANGED <<part, vars, graphVars>>

ResultsNext == StreamStep \/ GraphStep \/ EagerStep

ResultsSpec == ResultsInit /\ [][ResultsNext]_<<part, vars, graphVars, eagerVars>> /\ Fairness

\* The properties of the other components, under their own names.

\* The objects of a row are related as its query joined their tables.
ObjectsAsJoined == Graph!ObjectsAsJoined

\* What is loaded with an object is what the database held.
RelatedAsStored == Eager!RelatedAsStored
=============================================================================
