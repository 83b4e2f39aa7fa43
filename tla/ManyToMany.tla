------------------------------ MODULE ManyToMany -------------------------------
(***************************************************************************)
(* ManyToManyField: two models related through the rows of a third.  Each  *)
(* side has an accessor; an instance's accessor reads the related ones,    *)
(* adds, removes, clears and sets them, in one statement each, but for a   *)
(* set, which clears and then inserts.                                     *)
(*                                                                         *)
(* A row of the through model maps its foreign keys to instances.  A side  *)
(* is the name of a model; Through is the sequence of the through model's  *)
(* foreign keys, records key and rel: one model may be referred to twice.  *)
(***************************************************************************)
EXTENDS Integers, Sequences, FiniteSets

CONSTANTS
    Sides, Of,          \* Of[m]: the instances of a model
    Throughs,           \* through models a program may declare
    Askers, Unsaved,    \* Unsaved: an instance without a key
    MaxCalls

\* Two models with instances of their own; each is referred to by the through
\* model, whose foreign keys have names of their own.
ASSUME ManyAssumption ==
    /\ \E a, b \in Sides : a # b /\ Sides = {a, b} /\ Of[a] \cap Of[b] = {}
    /\ \A th \in Throughs :
         /\ \A i, j \in DOMAIN th : th[i].key = th[j].key => i = j
         /\ \A m \in Sides : \E i \in DOMAIN th :   \* the first of its keys to m
                th[i].rel = m /\ \A j \in 1..(i - 1) : th[j].rel # m

VARIABLES through, unique, rows, pending, relation, exact, calls

manyVars == <<through, unique, rows, pending, relation, exact, calls>>

Other(m) == CHOOSE n \in Sides : n # m
NoSet == [side |-> "", of |-> "", set |-> {}]

\* ManyToManyFieldAccessor.__init__(): the first foreign key to each of the models.
FkTo(m) == through[CHOOSE i \in DOMAIN through : through[i].rel = m
                       /\ \A j \in 1..(i - 1) : through[j].rel # m].key

SrcFk(side) == FkTo(side)
\* Mutation: the last foreign key to the other model.
LastFkTo(side) == through[CHOOSE i \in DOMAIN through : through[i].rel = Other(side)
                              /\ \A j \in (i + 1)..Len(through) : through[j].rel # Other(side)].key
DestFk(side) == FkTo(Other(side))
Fks == {through[i].key : i \in DOMAIN through}

\* The generated through model has a unique index on both; others may not.
ManyInit ==
    /\ through \in Throughs
    /\ unique \in BOOLEAN
    /\ rows = {}
    /\ pending = [c \in Askers |-> NoSet]
    /\ relation = {}
    /\ exact = TRUE
    /\ calls = 0

\* __get__(): the join of the through rows.
Shown(side, x) == {r[DestFk(side)] : r \in {s \in rows : s[SrcFk(side)] = x}}
\* insert_many() of the two keys; a third stays NULL.
ThroughRow(side, x, y) ==
    [k \in Fks |-> IF k = SrcFk(side) THEN x ELSE IF k = DestFk(side) THEN y ELSE "null"]
\* The relation itself: unordered pairs of instances of the two models.
PairsOf(x, set) == {{x, y} : y \in set}

-----------------------------------------------------------------------------
\* An insert fails, as a whole, where one of the rows is there and must be unique.
Fits(side, x, set) == unique => \A y \in set : ThroughRow(side, x, y) \notin rows
WithRows(side, x, set) == rows \cup {ThroughRow(side, x, y) : y \in set}
Removed(side, x, set) == {r \in rows : ~(r[SrcFk(side)] = x /\ r[DestFk(side)] \in set)}
Cleared(side, x) == {r \in rows : r[SrcFk(side)] # x}

\* A statement that another client's set comes in between of is no longer the
\* relation's last word.
Disturbed(c) == \E d \in Askers \ {c} : pending[d] # NoSet
Asks(c, side, x) ==
    /\ calls < MaxCalls
    /\ pending[c] = NoSet
    /\ x # Unsaved               \* prevent_unsaved: ValueError
    /\ calls' = calls + 1

\* add(): of instances, identifiers, or what a query finds; nothing for an empty list.
Add(c, side, x, set) ==
    /\ Asks(c, side, x)
    /\ rows' = IF Fits(side, x, set) THEN WithRows(side, x, set) ELSE rows
    /\ relation' = IF Fits(side, x, set) THEN relation \cup PairsOf(x, set) ELSE relation
    /\ exact' = (exact /\ ~Disturbed(c))
    /\ UNCHANGED <<through, unique, pending>>
RemoveThese(c, side, x, set) ==
    /\ Asks(c, side, x)
    /\ rows' = Removed(side, x, set)
    /\ relation' = relation \ PairsOf(x, set)
    /\ exact' = (exact /\ ~Disturbed(c))
    /\ UNCHANGED <<through, unique, pending>>
Clear(c, side, x) ==
    /\ Asks(c, side, x)
    /\ rows' = Cleared(side, x)
    /\ relation' = relation \ PairsOf(x, Of[Other(side)])
    /\ exact' = (exact /\ ~Disturbed(c))
    /\ UNCHANGED <<through, unique, pending>>

\* __set__(): clear(), then add(); no transaction holds them together.
Set(c, side, x, set) ==
    /\ Asks(c, side, x)
    /\ rows' = Cleared(side, x)
    /\ pending' = [pending EXCEPT ![c] = [side |-> side, of |-> x, set |-> set]]
    /\ exact' = (exact /\ ~Disturbed(c))
    /\ UNCHANGED <<through, unique, relation>>
SetAdds(c) ==
    LET p == pending[c]
    IN  /\ p # NoSet
        /\ rows' = IF Fits(p.side, p.of, p.set) THEN WithRows(p.side, p.of, p.set) ELSE rows
        /\ pending' = [pending EXCEPT ![c] = NoSet]
        /\ relation' = (relation \ PairsOf(p.of, Of[Other(p.side)])) \cup PairsOf(p.of, p.set)
        /\ UNCHANGED <<through, unique, exact, calls>>
\* The insert fails, or the process stops: the instance is left without any.
SetStops(c) ==
    /\ pending[c] # NoSet
    /\ pending' = [pending EXCEPT ![c] = NoSet]
    /\ exact' = FALSE
    /\ UNCHANGED <<through, unique, rows, relation, calls>>

ManyNext == \E c \in Askers :
    \/ SetAdds(c)
    \/ SetStops(c)
    \/ \E side \in Sides : \E x \in Of[side] :
        \/ Clear(c, side, x)
        \/ \E set \in (SUBSET Of[Other(side)]) \ {{}} :
              Add(c, side, x, set) \/ RemoveThese(c, side, x, set) \/ Set(c, side, x, set)

ManySpec == ManyInit /\ [][ManyNext]_manyVars

-----------------------------------------------------------------------------
\* Both sides tell the same: an instance is among those another one shows exactly
\* when the other is among those it shows itself; and where no set was interrupted
\* or overlapped by another client's statement, they show the relation that the
\* statements, taken one after another from either side, ask for.
SidesAgree ==
    /\ \A side \in Sides : \A x \in Of[side], y \in Of[Other(side)] :
         y \in Shown(side, x) <=> x \in Shown(Other(side), y)
    /\ (exact /\ \A c \in Askers : pending[c] = NoSet) =>
         relation = UNION {UNION {PairsOf(x, Shown(side, x)) : x \in Of[side]} : side \in Sides}
=============================================================================
