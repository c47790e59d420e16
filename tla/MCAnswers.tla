----------------------------- MODULE MCAnswers -----------------------------
(* Values for TLC: texts over two letters and a space, and bodies of at most two
   messages or items. *)
EXTENDS Answers

CONSTANTS a, b

Characters == {a, b, Space}
AnEcho == << b, Space >>
ALegacyEcho == << b >>
AHello == << a, Space, b >>

A == << a >>
Words == << a, Space, b >>
Spaced == << Space, a, Space, Space >>

Said(role, content, parts) == [role |-> role, content |-> content, parts |-> parts]
Given1(input_text, content, parts) ==
  [input_text |-> input_text, content |-> content, parts |-> parts]

\* A string, an empty one, parts of which the first is no text, an empty text before
\* another, no text at all; an assistant's message before and after a user's.
UserMessages ==
  {Said("user", t, << >>) : t \in {A, Spaced, << >>}} \cup
  {Said("user", None, p) : p \in {<< >>, << None, Words >>, << << >>, A >>}}
SomeChats ==
  {<< m >> : m \in UserMessages} \cup
  {<< Said("user", A, << >>), m >> : m \in {Said("user", Words, << >>), Said("user", None, << >>),
                                           Said("other", Words, << >>)}} \cup
  {<< Said("other", A, << >>) >>}

\* The same for items; an item may have none of the three.
SomeInputs ==
  {<< >>} \cup
  {<< Given1(None, t, << >>) >> : t \in {A, Spaced, << >>}} \cup
  {<< Given1(Words, None, << >>) >>, << Given1(None, None, << None, << >>, A >>) >>} \cup
  {<< Given1(None, Words, << >>), i >> :
     i \in {Given1(None, None, << >>), Given1(A, None, << >>), Given1(<< >>, None, << >>),
            Given1(None, None, << << >> >>)}}

SomePrompts == {<< >>, Words}
SomeBatches == {<< >>, << A >>, << A, Words >>, << A, A, A >>}
===========================================================================
