-------------------------------- MODULE Kref --------------------------------
(***************************************************************************)
(* The grammar of references (python/kumiho/kref.py): the kernel reading   *)
(* that the server shares, the older pattern that the Kref constructor     *)
(* checks, the lexical split and its accessors, and the GetItem request    *)
(* that a reference is turned into.                                        *)
(*                                                                         *)
(* A reference is [scheme, path, query].  A path is a sequence of segments *)
(* and a segment the sequence of its pieces between dots: <<"a", "b">> is  *)
(* "a.b", <<"">> the empty segment.  A query is a sequence of [key, eq,    *)
(* value]; eq is FALSE for a pair without "=".  Characters are abstracted  *)
(* to what the grammar tells apart: pieces that start with a word, pieces  *)
(* that start with "-", and pieces with a character no segment may hold.   *)
(* Lengths in bytes are not modelled.                                      *)
(***************************************************************************)
EXTENDS Integers, SequencesExt

CONSTANTS
    Words,        \* pieces that may start a segment
    Dashed,       \* pieces that may only follow a dot
    Numerals,     \* digit strings -> their value
    ZeroLed,      \* those that begin with "0"
    MaxRevision,  \* stands for 2^64 - 1
    MaxSegments,  \* MAX_KREF_SEGMENTS
    TagTexts,     \* what _valid_tag accepts
    CutAtEq,      \* tag text -> what is left of its first "="
    Times,        \* texts of twelve digits
    ArtNames      \* what _valid_artifact_name accepts

Nothing == "none"
Latest == "latest"

\* "" is no artifact name, and there is no "=" in "latest" to cut it at.
ASSUME KrefAssumption ==
    /\ "" \notin Words \cup Dashed \cup ArtNames
    /\ ZeroLed \subseteq DOMAIN Numerals
    /\ \A n \in DOMAIN Numerals : Numerals[n] \in Nat
    /\ DOMAIN CutAtEq = TagTexts
    /\ Latest \in TagTexts => CutAtEq[Latest] = Latest

\* kumiho_pb2 resolves by number, by tag, by time or to the item itself.
NoSelector == [by |-> "item", what |-> Nothing, at |-> Nothing, art |-> Nothing]
Rejected == [NoSelector EXCEPT !.by = "rejected"]

---------------------------------------------------------------------------
(* Paths. *)

\* A dot follows a dot: ".." somewhere in the path.
Traverses(s) == \E i \in 2..Len(s) - 1 : s[i] = ""

SegmentOk(s) ==
    /\ s[1] \in Words
    /\ \A i \in 2..Len(s) : s[i] \in Words \cup Dashed \cup {""}

\* rpartition("."): a name, a dot and a kind.
NamesAnItem(s) == Len(s) > 1 /\ Last(s) # ""

Shapes(path) ==
    IF \/ Len(path) > MaxSegments
       \/ \E i \in 1..Len(path) : ~SegmentOk(path[i]) \/ Traverses(path[i])
    THEN {}
    ELSE {k \in {"root_item", "item", "space", "project"} :
            CASE k = "root_item" -> Len(path) = 2 /\ NamesAnItem(Last(path))
              [] k = "item"      -> Len(path) > 2 /\ NamesAnItem(Last(path))
              [] k = "space"     -> Len(path) > 1
              [] k = "project"   -> Len(path) = 1}

---------------------------------------------------------------------------
(* Queries, as the kernel and the server read them. *)

Pairs(query, key) == {i \in 1..Len(query) : query[i].key = key}

\* The value of a key that occurs once, or Nothing.
Slot(query, key) ==
    IF Pairs(query, key) = {} THEN Nothing
    ELSE query[CHOOSE i \in Pairs(query, key) : TRUE].value

ReadRevision(text) ==
    /\ text \in DOMAIN Numerals
    /\ text \notin ZeroLed
    /\ Numerals[text] <= MaxRevision

ReadQuery(query) ==
    LET r == Slot(query, "r")
        t == Slot(query, "t")
        a == Slot(query, "a")
        selects == [NoSelector EXCEPT
                      !.by = IF r \notin {Nothing, Latest} THEN "number"
                             ELSE IF r = Nothing /\ t = Nothing THEN "item" ELSE "tag",
                      !.what = IF r = Nothing THEN t ELSE r,
                      !.art = a]
    IN  IF \/ \E i \in 1..Len(query) : ~query[i].eq \/ query[i].key \notin {"r", "t", "a"}
           \/ \E i, j \in 1..Len(query) : i # j /\ query[i].key = query[j].key
           \/ r # Nothing /\ t # Nothing
           \/ r \notin {Nothing, Latest} /\ ~ReadRevision(r)
           \/ t # Nothing /\ t \notin TagTexts
           \/ a # Nothing /\ (selects.by = "item" \/ a \notin ArtNames)
        THEN Rejected
        ELSE selects

\* _read, which KrefParts.valid, .revision, .tag and .artifact expose.
Read(ref) ==
    IF ~ref.scheme \/ Shapes(ref.path) = {} THEN Rejected ELSE ReadQuery(ref.query)

ItemShaped(ref) ==
    Read(ref) # Rejected /\ Shapes(ref.path) \cap {"item", "root_item"} # {}

---------------------------------------------------------------------------
(* The Kref constructor and its accessors. *)

\* The pattern: an optional leading "/", and "?r=" with "&a=" after it or nothing.
Constructs(ref) ==
    LET path == IF ref.path[1] = <<"">> THEN Tail(ref.path) ELSE ref.path
        q == ref.query
    IN  /\ ref.scheme
        /\ path # <<>>
        /\ \A i \in 1..Len(path) : SegmentOk(path[i]) /\ ~Traverses(path[i])
        /\ Len(q) <= 2
        /\ Len(q) >= 1 => q[1].key = "r" /\ q[1].eq /\ q[1].value \in DOMAIN Numerals
        /\ Len(q) = 2 => q[2].key = "a" /\ q[2].eq /\ q[2].value \in ArtNames

\* get_revision: the digits after "?r=", else 1.
RevisionOf(ref) ==
    IF ref.query # <<>> /\ ref.query[1].key = "r" /\ ref.query[1].value \in DOMAIN Numerals
    THEN Numerals[ref.query[1].value] ELSE 1

\* get_artifact_name: what follows the first "&a=".
ArtifactOf(ref) ==
    LET as == {i \in Pairs(ref.query, "a") \ {1} : ref.query[i].value # ""}
    IN  IF as = {} THEN Nothing
        ELSE ref.query[CHOOSE i \in as : \A j \in as : i <= j].value

ProjectOf(ref) == ref.path[1]

\* get_space: everything between the project and the leaf.
SpaceOf(ref) == SubSeq(ref.path, 2, Len(ref.path) - 1)

KindOf(ref) == IF Len(Last(ref.path)) > 1 THEN Last(Last(ref.path)) ELSE Nothing

---------------------------------------------------------------------------
(* The GetItem request. *)

\* The lexical split succeeds: a "/" and a leaf with a dot.
Splits(ref) == Len(ref.path) > 1 /\ Len(Last(ref.path)) > 1

\* get_item_tuple: the parent path, and the name, which here keeps its kind.
ItemTuple(ref) == [parent |-> Front(ref.path), leaf |-> <<Last(ref.path)>>]

\* The shape of older clients: the project, and all the rest as the name.
ProjectTuple(ref) == [parent |-> <<ref.path[1]>>, leaf |-> Tail(ref.path)]

\* normalize_space_path: "/" trimmed on both sides.
Trimmed(path) ==
    LET full == {i \in 1..Len(path) : path[i] # <<"">>}
    IN  IF full = {} THEN <<>>
        ELSE SubSeq(path, CHOOSE i \in full : \A j \in full : i <= j,
                          CHOOSE i \in full : \A j \in full : i >= j)

\* The path kumiho-server matches for a request.
ServerItemKey(request) == Trimmed(request.parent) \o request.leaf

\* Mutant: the grammar's split, whatever the server makes of it.
ItemRequestAsSplit(ref) == ItemTuple(ref)

ItemRequest(ref) ==
    IF ServerItemKey(ItemTuple(ref)) = ServerItemKey(ProjectTuple(ref))
    THEN ItemTuple(ref) ELSE ProjectTuple(ref)

---------------------------------------------------------------------------
(* What the client makes of a query before it asks the server. *)

\* client.get_revision: t=, tag= and time= are read off the text and sent beside the
\* base; a query without them is sent whole, for the server to read.
Selects(ref) ==
    LET given(keys) == {i \in 1..Len(ref.query) : ref.query[i].key \in keys /\ ref.query[i].eq}
        final(s) == IF s = {} THEN Nothing
                    ELSE ref.query[CHOOSE i \in s : \A j \in s : i >= j].value
        tag == final(given({"t", "tag"}))
    IN  IF \E i \in given({"time"}) : ref.query[i].value \notin Times THEN Rejected
        ELSE IF given({"t", "tag", "time"}) = {} THEN Read(ref)
        ELSE [NoSelector EXCEPT !.by = IF tag = Nothing THEN "time" ELSE "tag",
                                !.what = IF tag \in TagTexts THEN CutAtEq[tag] ELSE tag,
                                !.at = final(given({"time"}))]
===========================================================================
