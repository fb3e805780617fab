--------------------------- MODULE JsonConverter ---------------------------
(***************************************************************************)
(* JsonConverter (dom-lib): the text of a tree and the number of           *)
(* characters the converter computes for it without writing the text.      *)
(***************************************************************************)
EXTENDS DomNode, FiniteSets, Functions, SequencesExt

\* The order of char in the execution character set, for the characters in use.
CharOrder == <<Space, Quote, ",", ":", "[", "]", "a", "b", "d", "i", "l", "m", "n", "t", "u",
               "v", "{", "}">>
Code(c) == CHOOSE i \in DOMAIN CharOrder : CharOrder[i] = c

\* std::string's operator<, which orders the std::map of the children.
Precedes(s, t) ==
    \E k \in 1..Len(t) :
        /\ Len(s) >= k - 1 /\ SubSeq(s, 1, k - 1) = SubSeq(t, 1, k - 1)
        /\ Len(s) = k - 1 \/ Code(s[k]) < Code(t[k])

ChildNames(node) == SetToSortSeq(DOMAIN node.m_children, Precedes)

NullText == <<"n", "u", "l", "l">>
getValueString(node) ==
    IF isNull(node) THEN NullText
    ELSE IF isString(node) THEN <<Quote>> \o node.m_value \o <<Quote>> ELSE node.m_value

\* The texts of the elements or children, separated by commas.
Separated(parts) ==
    FlattenSeq([i \in DOMAIN parts |-> IF i = 1 THEN parts[i] ELSE <<",">> \o parts[i]])

RECURSIVE toString(_)
toString(node) ==
    CASE isArray(node) ->
            <<"[">> \o Separated([i \in DOMAIN node.m_arrayElements |->
                                      toString(node.m_arrayElements[i])]) \o <<"]">>
      [] ~isArray(node) /\ isLeaf(node) -> getValueString(node)
      [] OTHER ->
            LET names == ChildNames(node)
            IN  <<"{">> \o Separated([i \in DOMAIN names |->
                    <<Quote>> \o names[i] \o <<Quote, ":">>
                        \o toString(node.m_children[names[i]])]) \o <<"}">>

\* Mutant: the quotes around a child's name are forgotten.
NameSizeUnquoted(name) == Len(name) + 1

NameSize(name) == Len(name) + 3

RECURSIVE size(_)
size(node) ==
    CASE isArray(node) ->
            Len(node.m_arrayElements) + 1
                + SumFunction([i \in DOMAIN node.m_arrayElements |->
                                   size(node.m_arrayElements[i])])
      [] ~isArray(node) /\ isLeaf(node) -> Len(getValueString(node))
      [] OTHER ->
            Cardinality(DOMAIN node.m_children) + 1
                + SumFunction([name \in DOMAIN node.m_children |->
                                   NameSize(name) + size(node.m_children[name])])
=============================================================================
