----------------------------- MODULE JsonParser -----------------------------
(***************************************************************************)
(* JsonParser (dom-lib) and a program that uses it: the program builds a   *)
(* tree, or is given a text, and converts between the two.  The parser's   *)
(* recursive functions are a stack of calls, and one action is what a      *)
(* function does between two calls of another.  The reading of characters  *)
(* is in the operators that find the next one; an exception of either kind *)
(* unwinds the whole stack.                                                *)
(***************************************************************************)
EXTENDS Integers, JsonGrammar

CONSTANTS
    Texts,           \* the texts that the program may be given
    Names, Values,   \* what the program may assign: the child's name, the value
    MaxAssignments,  \* bound on the assignments to children
    MaxReads         \* bound on the calls of fromString

ASSUME JsonBoundsAssumption == MaxAssignments \in Nat /\ MaxReads \in Nat

VARIABLES
    root,         \* the tree the program holds
    m_input, m_currIndex,
    pc,           \* what runs next
    calls,        \* the calls of loadNext and loadArray in progress, innermost last
    value,        \* what the last loadValue has returned
    outcome,      \* how the last fromString has ended
    written,      \* ghost: the tree whose text is read, NoTree for a given text
    assignments, reads

parser == <<m_input, m_currIndex, pc, calls, value, outcome>>
vars == <<root, parser, written, assignments, reads>>

NoTree == [m_type |-> "no tree"]

Init ==
    /\ root = NullNode /\ written = NoTree
    /\ m_input = <<>> /\ m_currIndex = 0 /\ pc = "program" /\ calls = <<>>
    /\ value = NullNode /\ outcome = "none"
    /\ assignments = 0 /\ reads = 0

-----------------------------------------------------------------------------
(* Reading characters.  Indices count from 0, as in the code; a negative   *)
(* index stands for the exception that leaves the function.                *)

OutOfRange == -1      \* std::out_of_range, thrown by std::string::at
ParseException == -2

Char(i) == IF i < Len(m_input) THEN m_input[i + 1] ELSE "end"

\* The first index from i on where the text has a character that passes or ends.
Find(i, Test(_)) ==
    CHOOSE j \in i..Len(m_input) :
        /\ j = Len(m_input) \/ Test(Char(j))
        /\ \A k \in i..(j - 1) : ~Test(Char(k))

SkipSpace(i) == Find(i, LAMBDA c : c # Space)
peakChar == Char(SkipSpace(m_currIndex))

\* The index behind the character c, which has to be the next that is no space.
Expect(i, c) ==
    LET j == SkipSpace(i)
    IN  IF Char(j) = "end" THEN OutOfRange
        ELSE IF Char(j) = c THEN j + 1 ELSE ParseException

\* loadUntilWithSpace: the index behind the quote that ends the string.
BehindString(i) ==
    LET j == Find(i, LAMBDA c : c = Quote)
    IN  IF Char(j) = "end" THEN OutOfRange ELSE j + 1

\* loadUntilNoSpace: the index behind the last character of a plain value, and the
\* index of its terminator, which the code steps back to with prevChar.
Terminators == {",", "}", "]"}
BehindValue(i) == Find(i, LAMBDA c : c \in Terminators \cup {Space})
\* Mutant: spaces are skipped wherever they are.
TerminatorOnly(i) ==
    LET j == Find(i, LAMBDA c : c \in Terminators)
    IN  IF Char(j) = "end" THEN OutOfRange ELSE j

ValueTerminator(i) ==
    LET j == SkipSpace(BehindValue(i))
    IN  IF Char(j) = "end" THEN OutOfRange
        ELSE IF Char(j) \in Terminators THEN j ELSE ParseException

\* e, unless an exception has been thrown before it is reached.
Then(before, e) == IF before < 0 THEN before ELSE e

Between(i, j) == SubSeq(m_input, i + 1, j)
-----------------------------------------------------------------------------
ObjectCall == [function |-> "loadNext", node |-> NullNode, name |-> <<>>]
ArrayCall == [function |-> "loadArray", node |-> ArrayNode(<<>>), name |-> <<>>]

\* An exception leaves parse(); the tree of the program is not assigned.
Throw(exception) ==
    /\ pc' = "program" /\ calls' = <<>>
    /\ outcome' = IF exception = OutOfRange THEN "out_of_range" ELSE "ParseException"
    /\ UNCHANGED <<root, m_input, m_currIndex, value, written, assignments, reads>>

\* The parser goes on at index i with the next function and stack.
GoOn(i, next, stack) ==
    /\ m_currIndex' = i /\ pc' = next /\ calls' = stack
    /\ UNCHANGED <<root, m_input, outcome, written, assignments, reads>>

Parse ==
    /\ pc = "parse"
    /\ LET open == Expect(m_currIndex, "{")
       IN  \/ open >= 0 /\ GoOn(open, "name", <<ObjectCall>>) /\ UNCHANGED value
           \/ open < 0 /\ Throw(open)

\* loadNext up to the value: a string and a colon.
LoadName ==
    /\ pc = "name"
    /\ LET open == Expect(m_currIndex, Quote)
           close == Then(open, BehindString(open))
           colon == Then(close, Expect(close, ":"))
           name == Between(open, close - 1)
       IN  \/ /\ colon >= 0
              /\ GoOn(colon, "value", [calls EXCEPT ![Len(calls)].name = name])
              /\ UNCHANGED value
           \/ colon < 0 /\ Throw(colon)

LoadBracket ==
    /\ pc = "value" /\ peakChar \in {"[", "{"}
    /\ LET inside == SkipSpace(m_currIndex) + 1
       IN  IF peakChar = "[" THEN GoOn(inside, "value", Append(calls, ArrayCall))
                             ELSE GoOn(inside, "name", Append(calls, ObjectCall))
    /\ UNCHANGED value

\* Mutant: the spaces that a string begins with are skipped.
LoadStringTrimmed ==
    /\ pc = "value" /\ peakChar = Quote
    /\ LET open == SkipSpace(SkipSpace(m_currIndex) + 1)
           close == BehindString(open)
       IN  \/ /\ close >= 0
              /\ GoOn(close, "return", calls)
              /\ value' = StringNode(Between(open, close - 1))
           \/ close < 0 /\ Throw(close)

\* Mutant: m_input is read without at(), and the loop does not end with the text.
LoadStringUnchecked ==
    /\ pc = "value" /\ peakChar = Quote
    /\ LET open == SkipSpace(m_currIndex) + 1
           close == BehindString(open)
       IN  /\ close >= 0
           /\ GoOn(close, "return", calls)
           /\ value' = StringNode(Between(open, close - 1))

LoadString ==
    /\ pc = "value" /\ peakChar = Quote
    /\ LET open == SkipSpace(m_currIndex) + 1
           close == BehindString(open)
       IN  \/ /\ close >= 0
              /\ GoOn(close, "return", calls)
              /\ value' = StringNode(Between(open, close - 1))
           \/ close < 0 /\ Throw(close)

LoadPlain ==
    /\ pc = "value" /\ peakChar \notin {"[", "{", "]", "}", ":", ",", Quote, "end"}
    /\ LET first == SkipSpace(m_currIndex)
           loaded == Between(first, BehindValue(first))
           terminator == ValueTerminator(first)
       IN  \/ /\ terminator >= 0
              /\ GoOn(terminator, "return", calls)
              /\ value' = IF loaded = NullText THEN NullNode ELSE BasicNode(loaded)
           \/ terminator < 0 /\ Throw(terminator)

LoadNothing ==
    /\ pc = "value" /\ peakChar \in {"]", "}", ":", ",", "end"}
    /\ Throw(IF peakChar = "end" THEN OutOfRange ELSE ParseException)

\* The call with the value it waited for.
Extended(call) ==
    IF call.function = "loadNext"
    THEN [call EXCEPT !.node = WithChild(@, call.name, value)]
    ELSE [call EXCEPT !.node.m_arrayElements = Append(@, value)]

Closing(call) == IF call.function = "loadNext" THEN "}" ELSE "]"

\* A value has been loaded: another one follows, or the call returns its node.
NextValue ==
    /\ pc = "return" /\ peakChar = ","
    /\ LET call == Extended(Last(calls))
       IN  GoOn(SkipSpace(m_currIndex) + 1,
                IF call.function = "loadNext" THEN "name" ELSE "value",
                Append(Front(calls), call))
    /\ UNCHANGED value

CallReturns ==
    /\ pc = "return" /\ peakChar = Closing(Last(calls)) /\ Len(calls) > 1
    /\ GoOn(SkipSpace(m_currIndex) + 1, "return", Front(calls))
    /\ value' = Extended(Last(calls)).node

ParseReturns ==
    /\ pc = "return" /\ peakChar = "}" /\ Len(calls) = 1
    /\ root' = Extended(Last(calls)).node
    /\ m_currIndex' = SkipSpace(m_currIndex) + 1
    /\ pc' = "program" /\ calls' = <<>> /\ outcome' = "ok"
    /\ UNCHANGED <<m_input, value, written, assignments, reads>>

Unclosed ==
    /\ pc = "return" /\ peakChar \notin {",", Closing(Last(calls))}
    /\ Throw(IF peakChar = "end" THEN OutOfRange ELSE ParseException)

Parser ==
    \/ Parse \/ LoadName \/ LoadBracket \/ LoadString \/ LoadPlain \/ LoadNothing
    \/ NextValue \/ CallReturns \/ ParseReturns \/ Unclosed
-----------------------------------------------------------------------------
\* The program builds a tree: root[a] = v or root[a][b] = v.
Build(tree) ==
    /\ pc = "program" /\ reads = 0 /\ assignments < MaxAssignments
    /\ root' = tree
    /\ assignments' = assignments + 1
    /\ UNCHANGED <<parser, written, reads>>

AssignChild(a, v) == Build(WithChild(root, a, v))
AssignGrandchild(a, b, v) ==
    Build(WithChild(root, a, WithChild(Child(root, a), b, v)))

\* fromString: a parser that starts at the beginning of the text.
FromString(text, tree) ==
    /\ pc = "program" /\ reads < MaxReads
    /\ m_input' = text /\ m_currIndex' = 0 /\ pc' = "parse"
    /\ written' = tree /\ reads' = reads + 1
    /\ UNCHANGED <<root, calls, value, outcome, assignments>>

ReadText == reads = 0 /\ assignments = 0 /\ \E text \in Texts : FromString(text, NoTree)
WriteAndRead == FromString(toString(root), root)

Program ==
    \/ \E a \in Names, v \in Values : AssignChild(a, v)
    \/ \E a, b \in Names, v \in Values : AssignGrandchild(a, b, v)
    \/ ReadText \/ WriteAndRead

Next == Program \/ Parser

\* The parser runs on the thread of its caller until it returns or throws.
Spec == Init /\ [][Next]_vars /\ WF_vars(Parser)
-----------------------------------------------------------------------------
HasRead == pc = "program" /\ outcome # "none"

\* fromString accepts exactly the texts that begin with a JSON object, for texts
\* damaged anywhere (loadNext, loadArray, loadValue, loadUntilNoSpace).
AcceptsDocuments == HasRead => (outcome = "ok" <=> IsDocument(m_input))

\* A tree that a text can carry comes back from toString and fromString as it was,
\* and whatever fromString returns is such a tree: reading and writing again
\* never changes it.
RoundTrip ==
    HasRead =>
        /\ outcome = "ok" => CarriedDocument(root)
        /\ written # NoTree /\ CarriedDocument(written) => outcome = "ok" /\ root = written

\* JsonConverter::size announces the length of the text that toString writes, for
\* every tree that a program builds or reads, unless it has an empty array.
SizeIsExact ==
    pc = "program" /\ ~HasEmptyArray(root) => size(root) = Len(toString(root))

\* fromString ends, whatever the text: no loop of the parser waits for a character
\* that does not come, or reads the same one for ever.
ParseEnds == pc = "parse" ~> pc = "program"
=============================================================================
