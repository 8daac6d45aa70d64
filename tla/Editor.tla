------------------------------- MODULE Editor -------------------------------
(***************************************************************************)
(* What the kernel answers while a cell is being typed: completions for    *)
(* the word before the cursor, help for the word at the cursor, and        *)
(* whether the cell can be executed.                                       *)
(*                                                                         *)
(* The text is a sequence of characters, since the kernel finds a word     *)
(* within a longer one too; the letters stand for digits and "_" as well.  *)
(* A letter that is not ASCII is two bytes in the kernel and one character *)
(* for the client.  The alphabet and the tables of keywords are cut down   *)
(* to a few.                                                               *)
(***************************************************************************)
EXTENDS Integers, Sequences, FiniteSets, SequencesExt

CONSTANTS
  Strokes,      \* what is typed at a time, a set of sequences of symbols
  MaxStrokes    \* bound: how often something is typed in a cell

\* toupper of the small letters.
Capital == [a |-> "A", c |-> "C", d |-> "D", e |-> "E", h |-> "H", i |-> "I", l |-> "L",
            n |-> "N", o |-> "O", p |-> "P", q |-> "Q", r |-> "R", s |-> "S", t |-> "T",
            u |-> "U", v |-> "V"]
Letters == UNION {{ch, Capital[ch]} : ch \in DOMAIN Capital}
Symbols == Letters \cup {"%", "(", "=", ";", " ", "\n", "e acute"}

ASSUME EditorAssumption == MaxStrokes \in Nat /\ Strokes \subseteq Seq(Symbols)

VARIABLES
  text,      \* the cell, as the client has it
  strokes,   \* how often something has been typed
  answer     \* to the request about this text, if there has been one: what is
             \* answered depends on the text alone

editorVars == <<text, strokes, answer>>

Spaces == {" ", "\n"}

\* The string that the kernel works on, and toupper of it.
Code == FlattenSeq([i \in DOMAIN text |->
          IF text[i] = "e acute" THEN <<"byte 1", "byte 2">> ELSE <<text[i]>>])
ToUpper(ch) == IF ch \in DOMAIN Capital THEN Capital[ch] ELSE ch
Upper(s) == [i \in DOMAIN s |-> ToUpper(s[i])]

\* find() and rfind(): where `part' stands in s.
Occurrences(s, part) ==
  {i \in 1 .. Len(s) + 1 - Len(part) : SubSeq(s, i, i + Len(part) - 1) = part}
Occurs(s, part) == Occurrences(s, part) # {}
LastAt(s, part) == Max(Occurrences(s, part) \cup {0})

\* What the kernel looks for in front of a word, or as the end of a step.
ProcSpace == <<"P", "R", "O", "C", " ">>
DataSpace == <<"D", "A", "T", "A", " ">>
DataEquals == <<"D", "A", "T", "A", "=">>
SetSpace == <<"S", "E", "T", " ">>
RunEnd == <<"R", "U", "N", ";">>

None == [kind |-> "none", at |-> 0, matches |-> {}, start |-> 0, help |-> "none",
         status |-> "none"]

EditorInit == text = <<>> /\ strokes = 0 /\ answer = None

Type ==
  /\ strokes < MaxStrokes /\ strokes' = strokes + 1
  /\ \E s \in Strokes : text' = text \o s
  /\ answer' = None

-----------------------------------------------------------------------------
(***************************************************************************)
(* Completion.                                                             *)
(***************************************************************************)
Procedures == {<<"S", "O", "R", "T">>, <<"T", "T", "E", "S", "T">>}
DataKeywords == {<<"S", "E", "T">>, <<"S", "T", "O", "P">>, <<"T", "H", "E", "N">>,
                 <<"L", "E", "A", "V", "E">>}
GlobalStatements == {<<"T", "I", "T", "L", "E">>}
Macros == {<<"%", "L", "E", "T">>, <<"%", "R", "U", "N">>, <<"%", "T", "H", "E", "N">>}

\* Mutant: a token ends at a %.
TokenChars_Words == Letters
TokenChars == Letters \cup {"%"}

\* Where the run of `chars' that ends before the cursor begins.
WordStart(code, chars, cursor) ==
  CHOOSE start \in 0 .. cursor :
    /\ \A i \in start + 1 .. cursor : code[i] \in chars
    /\ start # 0 => code[start] \notin chars

Matching(keywords, token) == {k \in keywords : IsPrefix(Upper(token), k)}

\* The % may be left out.
MacroCompletions(token) ==
  IF token[1] = "%" THEN Matching(Macros, token)
  ELSE {m \in Macros : IsPrefix(Upper(token), Tail(m))}

DataCompletions(token) == Matching(DataKeywords, token)   \* no variables yet

\* Mutant: macros are left to the macro context.
GeneralCompletions_NoMacros(token) ==
  Matching(Procedures, token) \cup DataCompletions(token) \cup Matching(GlobalStatements, token)
GeneralCompletions(token) ==
  Matching(Procedures, token) \cup DataCompletions(token)
    \cup Matching(GlobalStatements, token) \cup MacroCompletions(token)

InProcStatement(code) == LastAt(Upper(code), ProcSpace) > LastAt(Upper(code), <<";">>)
InDataStep(code) == LastAt(Upper(code), DataSpace) > LastAt(Upper(code), RunEnd)

Context(code) ==
  CASE InProcStatement(code) -> "proc"
    [] ~InProcStatement(code) /\ code # <<>> /\ Last(code) = "%" -> "macro"
    [] ~InProcStatement(code) /\ (code = <<>> \/ Last(code) # "%") /\ InDataStep(code)
         -> "data_step"
    [] OTHER -> "general"

Completions(code, token) ==
  IF token = <<>> THEN {}
  ELSE CASE Context(code) = "proc" -> Matching(Procedures, token)
         [] Context(code) = "macro" -> MacroCompletions(token)
         [] Context(code) = "data_step" -> DataCompletions(token)
         [] Context(code) = "general" -> GeneralCompletions(token)

\* At the end of the text.  The client counts characters, the kernel bytes.
Complete ==
  /\ answer = None
  /\ LET cursor == Len(text)
         before == SubSeq(Code, 1, cursor)
         start == WordStart(Code, TokenChars, cursor)
     IN  answer' = [None EXCEPT !.kind = "complete", !.at = cursor, !.start = start,
                      !.matches = Completions(before, SubSeq(before, start + 1, cursor))]
  /\ UNCHANGED <<text, strokes>>

-----------------------------------------------------------------------------
(***************************************************************************)
(* Inspection.                                                             *)
(***************************************************************************)
IdentifierChars == Letters

WordEnd(code, chars, cursor) ==
  CHOOSE end \in cursor .. Len(code) :
    /\ \A i \in cursor + 1 .. end : code[i] \in chars
    /\ end # Len(code) => code[end + 1] \notin chars

Identifier(code, cursor) ==
  SubSeq(code, WordStart(code, IdentifierChars, cursor) + 1,
               WordEnd(code, IdentifierChars, cursor))

NextChar(code, from) ==
  LET next == SelectInSubSeq(code, from, Len(code), LAMBDA ch : ch \notin Spaces)
  IN  IF next = 0 THEN "end" ELSE code[next]

\* The identifier is looked for in the whole text, a function only where its
\* letters stand first, be it within another word.
IsFunction_Adjacent(code, id) ==   \* mutant: white space is not skipped
  \E i \in Occurrences(code, id) :
    i = Min(Occurrences(code, id)) /\ i + Len(id) <= Len(code) /\ code[i + Len(id)] = "("

IsFunction(code, id) ==
  Occurs(code, id) /\ NextChar(code, Min(Occurrences(code, id)) + Len(id)) = "("

DatasetPlaces == {DataEquals, DataSpace, SetSpace}
IsDataset(code, id) == \E place \in DatasetPlaces : Occurs(Upper(code), place \o Upper(id))
IsProcedure(code, id) == Occurs(Upper(code), ProcSpace \o Upper(id))

Classify(code, id) ==
  CASE IsProcedure(code, id) -> "procedure"
    [] ~IsProcedure(code, id) /\ IsFunction(code, id) -> "function"
    [] ~IsProcedure(code, id) /\ ~IsFunction(code, id) /\ IsDataset(code, id) -> "dataset"
    [] OTHER -> IF id[1] = "%" THEN "macro" ELSE "unknown"

\* There is a text for every procedure, function and data set, if need be that
\* there is none, and for every macro variable; only an unknown identifier has none.
Help(class) == IF class = "unknown" THEN "none" ELSE class

Inspect ==
  /\ answer = None
  /\ \E cursor \in 0 .. Len(text) :
       LET id == Identifier(Code, cursor)
           class == IF id = <<>> THEN "unknown" ELSE Classify(Code, id)
       IN  answer' = [None EXCEPT !.kind = "inspect", !.at = cursor, !.help = Help(class)]
  /\ UNCHANGED <<text, strokes>>

-----------------------------------------------------------------------------
(***************************************************************************)
(* Is the cell complete?                                                   *)
(***************************************************************************)
LineOf(code, i) == Cardinality({j \in 1 .. i - 1 : code[j] = "\n"})

\* In upper or in lower case, not in mixed case.
DataWords == {DataSpace, <<"d", "a", "t", "a", " ">>}
ProcWords == {ProcSpace, <<"p", "r", "o", "c", " ">>}
RunWords == {RunEnd, <<"r", "u", "n", ";">>}
QuitWords == {<<"Q", "U", "I", "T", ";">>, <<"q", "u", "i", "t", ";">>}

Places(code, words) == UNION {Occurrences(code, word) : word \in words}

LinesWith_AnyLine(code, words) == IF Places(code, words) # {} THEN 1 ELSE 0   \* mutant: no lines
LinesWith(code, words) == Cardinality({LineOf(code, i) : i \in Places(code, words)})

LastChar(code) == SelectLastInSeq(code, LAMBDA ch : ch \notin Spaces)

IsCompleteStatus(code) ==
  IF LastChar(code) = 0 \/ code[LastChar(code)] # ";" THEN "incomplete"
  ELSE IF LinesWith(code, DataWords) + LinesWith(code, ProcWords)
            > LinesWith(code, RunWords) + LinesWith(code, QuitWords)
  THEN "incomplete" ELSE "complete"

IsComplete ==
  /\ answer = None
  /\ answer' = [None EXCEPT !.kind = "is_complete", !.status = IsCompleteStatus(Code)]
  /\ UNCHANGED <<text, strokes>>

EditorNext == Type \/ Complete \/ Inspect \/ IsComplete

-----------------------------------------------------------------------------
(***************************************************************************)
(* Properties.                                                             *)
(***************************************************************************)
EditorTypeOK ==
  /\ text \in Seq(Symbols) /\ strokes \in 0 .. MaxStrokes
  /\ answer.kind \in {"none", "complete", "inspect", "is_complete"}
  /\ answer.matches \subseteq Procedures \cup DataKeywords \cup GlobalStatements \cup Macros
  /\ answer.at \in 0 .. Len(text) /\ answer.start \in 0 .. answer.at
  /\ answer.help \in {"procedure", "function", "dataset", "macro", "none"}
  /\ answer.status \in {"none", "incomplete", "complete"}

Ascii(s) == \A i \in DOMAIN s : s[i] # "e acute"

\* The word before the end of s, as one reads it: a keyword, with its %.
LastWord(s) == SubSeq(s, WordStart(s, Letters \cup {"%"}, Len(s)) + 1, Len(s))

\* Whatever is offered, and for whatever part of the text: once the client has
\* put it between cursor_start and cursor_end, the last word of the text is the
\* keyword, if the text is ASCII; otherwise bytes and characters differ.
CompletionFits ==
  answer.kind = "complete" /\ Ascii(text) =>
    \A m \in answer.matches : LastWord(SubSeq(text, 1, answer.start) \o m) = m

OfferedFor(s) == Completions(s, LastWord(s))

\* What has been typed of a keyword; of a macro keyword also without its %.
Towards(word, m) == IsPrefix(word, m) \/ (m \in Macros /\ IsPrefix(word, Tail(m)))

\* A keyword that is offered is still offered when one types on towards it, but
\* for what was offered for a % in a DATA step.
StaysOffered ==
  [][LET more == SubSeq(text', Len(text) + 1, Len(text'))
     IN  Ascii(text) /\ Len(text') > Len(text)
           /\ ToSet(more) \subseteq Letters
           /\ ~(LastWord(text) = <<"%">> /\ InDataStep(text))
         => \A m \in OfferedFor(text) :
              LastWord(text) # <<>> /\ Towards(LastWord(Upper(text')), m)
                => m \in OfferedFor(text')]_text

EndsWith(s, part) == Len(s) + 1 - Len(part) \in Occurrences(s, part)

\* Help is about the place the cursor is at: if the letters of the identifier
\* stand nowhere else, in whatever case and not within another word either, it is
\* classed by what stands around it, though all searches go over the whole text.
\* In "DATA T(" the letter T stands elsewhere too, and T is not taken for a function.
Around(s, cursor) ==
  LET start == WordStart(s, Letters, cursor)
      end == WordEnd(s, Letters, cursor)
      Follows(place) == EndsWith(Upper(SubSeq(s, 1, start)), place)
  IN  CASE start = end -> "none"
        [] start # end /\ Follows(ProcSpace) -> "procedure"
        [] start # end /\ ~Follows(ProcSpace) /\ NextChar(s, end + 1) = "(" -> "function"
        [] start # end /\ ~Follows(ProcSpace) /\ NextChar(s, end + 1) # "("
             /\ (\E place \in DatasetPlaces : Follows(place)) -> "dataset"
        [] OTHER -> "none"

InspectionRight ==
  answer.kind = "inspect" /\ Ascii(text) =>
    LET id == Identifier(text, answer.at)
    IN  Cardinality(Occurrences(Upper(text), Upper(id))) = 1 =>
          answer.help = Around(text, answer.at)

\* A cell never asks for more without end: after one line RUN; for each step that
\* was begun, it counts as complete.
RunCompletes ==
  answer.kind = "is_complete" =>
    LET begun == Cardinality(Places(Code, DataWords \cup ProcWords))
        runs == FlattenSeq([i \in 1 .. Max({begun, 1}) |-> <<"\n">> \o RunEnd])
    IN  IsCompleteStatus(Code \o runs) = "complete"

\* A macro keyword is offered wherever a word begins with a %, outside of the
\* statement that begins with PROC.
MacroOffered ==
  answer.kind = "complete" /\ Ascii(text) /\ ~InProcStatement(text)
    /\ LastWord(text) # <<>> /\ LastWord(text)[1] = "%"
    => Matching(Macros, LastWord(text)) \subseteq answer.matches
=============================================================================
