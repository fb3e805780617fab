---------------------------- MODULE JsonGrammar ----------------------------
(***************************************************************************)
(* What JsonParser and JsonConverter are compared with: the texts that are *)
(* JSON as this library understands it, defined by how a text splits into  *)
(* parts and not by reading it, and the trees that a text can carry.       *)
(***************************************************************************)
EXTENDS JsonConverter

From(s, k) == SubSeq(s, k, Len(s))
UpTo(s, k) == SubSeq(s, 1, k)

Trim(s) ==
    LET solid == {i \in DOMAIN s : s[i] # Space}
    IN  IF solid = {} THEN <<>>
        ELSE SubSeq(s, CHOOSE i \in solid : \A j \in solid : i <= j,
                       CHOOSE i \in solid : \A j \in solid : i >= j)

Enclosed(s, open, close) == Len(s) >= 2 /\ s[1] = open /\ s[Len(s)] = close
Inside(s) == SubSeq(s, 2, Len(s) - 1)

IsString(s) == Enclosed(s, Quote, Quote) /\ ~Contains(Inside(s), Quote)

\* Whatever is neither a string nor in brackets: a number, true, false, null.
IsPlain(s) ==
    /\ s # <<>> /\ s[1] \notin {"[", "{", ":", Quote}
    /\ \A i \in DOMAIN s : s[i] \notin {",", "}", "]", Space}

RECURSIVE IsValue(_), IsPair(_), IsList(_, _)
IsObject(s) == Enclosed(s, "{", "}") /\ IsList(Inside(s), TRUE)
IsValue(s) ==
    \/ IsString(s) \/ IsPlain(s) \/ IsObject(s)
    \/ Enclosed(s, "[", "]") /\ IsList(Inside(s), FALSE)
IsPair(s) ==
    \E k \in DOMAIN s :
        s[k] = ":" /\ IsString(Trim(UpTo(s, k - 1))) /\ IsValue(Trim(From(s, k + 1)))
IsList(s, ofPairs) ==
    LET IsItem(t) == IF ofPairs THEN IsPair(t) ELSE IsValue(t)
    IN  \/ IsItem(Trim(s))
        \/ \E k \in DOMAIN s :
               s[k] = "," /\ IsItem(Trim(UpTo(s, k - 1))) /\ IsList(From(s, k + 1), ofPairs)

\* A text whose beginning is an object; what follows the object is ignored.
IsDocument(text) == \E begin \in Prefixes(text) : IsObject(Trim(begin))

\* A node that is one thing only, without empty arrays, quotes inside of strings
\* and names, or values that would read as something else.
RECURSIVE Carried(_)
Carried(node) ==
    \/ node = NullNode
    \/ node = StringNode(node.m_value) /\ ~Contains(node.m_value, Quote)
    \/ node = BasicNode(node.m_value) /\ IsPlain(node.m_value) /\ node.m_value # NullText
    \/ /\ node = ArrayNode(node.m_arrayElements) /\ node.m_arrayElements # <<>>
       /\ \A i \in DOMAIN node.m_arrayElements : Carried(node.m_arrayElements[i])
    \/ /\ node = [NullNode EXCEPT !.m_children = node.m_children]
       /\ \A name \in DOMAIN node.m_children :
              ~Contains(name, Quote) /\ Carried(node.m_children[name])

\* A document is an object.
CarriedDocument(node) ==
    Carried(node) /\ node.m_type = "NONE" /\ ~isLeaf(node)

RECURSIVE HasEmptyArray(_)
HasEmptyArray(node) ==
    \/ isArray(node) /\ node.m_arrayElements = <<>>
    \/ \E i \in DOMAIN node.m_arrayElements : HasEmptyArray(node.m_arrayElements[i])
    \/ \E name \in DOMAIN node.m_children : HasEmptyArray(node.m_children[name])
=============================================================================
