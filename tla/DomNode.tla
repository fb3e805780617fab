------------------------------ MODULE DomNode ------------------------------
(***************************************************************************)
(* DomNode (dom-lib): a tree of values, as the constructors, operator[]    *)
(* and the queries of DomNode.cpp leave it.  A std::string is a sequence   *)
(* of characters, and a character is a TLA+ string of length one.          *)
(***************************************************************************)
EXTENDS Naturals, Sequences, TLC

Space == " "
Quote == "\""

\* A node has a type, a text, named children and elements, in every combination
\* that assigning to a child of a node that already has a value can produce.
DomNode(type, value, children, elements) ==
    [m_type |-> type, m_value |-> value, m_children |-> children,
     m_arrayElements |-> elements]

NullNode == DomNode("NONE", <<>>, <<>>, <<>>)
StringNode(val) == DomNode("STRING", val, <<>>, <<>>)
BasicNode(val) == DomNode("BASIC_VALUE", val, <<>>, <<>>)
ArrayNode(vals) == DomNode("ARRAY", <<>>, <<>>, vals)

\* node[name] creates the child when it is accessed for the first time.
Child(node, name) ==
    IF name \in DOMAIN node.m_children THEN node.m_children[name] ELSE NullNode

\* node[name] = val replaces the child and leaves the node's own type and value.
WithChild(node, name, val) ==
    [node EXCEPT !.m_children = (name :> val) @@ @]

isLeaf(node) == DOMAIN node.m_children = {}
isArray(node) == node.m_type = "ARRAY"
isString(node) == node.m_type = "STRING"
isNull(node) ==
    isLeaf(node) /\ ~isArray(node) /\ ~isString(node) /\ node.m_value = <<>>
=============================================================================
