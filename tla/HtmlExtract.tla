----------------------------- MODULE HtmlExtract -----------------------------
(***************************************************************************)
(* What execute does with the HTML that it has read: it cuts out what      *)
(* looks like a document or a fragment, then runs six passes over the      *)
(* text, each of which finds its tags with find() and rfind() and edits    *)
(* the string in place.  The last pass, which rebuilds the first table, is *)
(* modelled cell by cell in TableFlatten; here it keeps the rows.          *)
(*                                                                         *)
(* The text is a sequence of tokens: tags, "row" for a <tr> with its       *)
(* cells, "img" for a picture, "text" for anything else.  A token has an   *)
(* identity `id', 0 for what is only structure or white space, and `attrs',*)
(* which of the attributes it has that are removed.                        *)
(* "<titlediv" is a <div of class systitleandfootercontainer, and "<html"  *)
(* stands for <!DOCTYPE html> too.  No text contains a tag or " style=".   *)
(***************************************************************************)
EXTENDS Integers, Sequences, FiniteSets, SequencesExt

CONSTANT Outputs   \* the HTML that SAS may print for one execution

Tags == {"<html", "</html>", "<div", "<titlediv", "</div>", "<table", "</table>",
         "<colgroup>", "<col/>", "</colgroup>", "<thead>", "</thead>", "<tbody>", "</tbody>",
         "<caption", "</caption>", "row", "img", "text"}

Attributes == {"style", "aria-label"}

Tokens == [tag : Tags, id : Nat, attrs : SUBSET Attributes]

Divs == {"<div", "<titlediv"}

First(s, tags, from) == SelectInSubSeq(s, from, Len(s), LAMBDA t : t.tag \in tags)

Start(s) ==
  LET html == First(s, {"<html"}, 1)
      div == First(s, Divs, 1)
  IN  CASE html # 0 -> html
        [] html = 0 /\ div # 0 -> div
        [] OTHER -> First(s, {"<table"}, 1)

\* What SAS prints: each of these elements is closed and holds only what belongs
\* into it, the body of a table comes right behind its header, and no document,
\* division or table ends before the one that all begins with.
Holds(s, open, close, inside) ==
  \A i \in DOMAIN s : s[i].tag = open =>
    \E k \in i + 1 .. Len(s) :
      s[k].tag = close /\ \A j \in i + 1 .. k - 1 : s[j].tag \in inside

Printed(s) ==
  /\ Holds(s, "<colgroup>", "</colgroup>", {"<col/>"})
  /\ Holds(s, "<titlediv", "</div>", {"text"})
  /\ Holds(s, "<caption", "</caption>", {"text"})
  /\ Holds(s, "<thead>", "</thead>", {"row"}) /\ Holds(s, "</thead>", "<tbody>", {})
  /\ Holds(s, "<table", "</table>", Tags \ {"<table", "img"})
  /\ \A i \in 1 .. Start(s) - 1 : s[i].tag \notin {"</html>", "</div>", "</table>"}

ASSUME ExtractAssumption == \A s \in Outputs : s \in Seq(Tokens) /\ Printed(s)

VARIABLES
  html_output,   \* what was read from stdout
  window,        \* of this, what the execution before left over, and what is missing
  has_html,
  clean_html,
  pass,          \* the pass that comes next
  caption_pos

extractVars == <<html_output, window, has_html, clean_html, pass, caption_pos>>

\* Each edit of the string replaces the part between two positions by another.
Replace(s, from, to, by) == SubSeq(s, 1, from - 1) \o by \o SubSeq(s, to + 1, Len(s))
Cut(s, from, to) == Replace(s, from, to, <<>>)

Keep(s, tags) ==
  FlattenSeq([i \in DOMAIN s |-> IF s[i].tag \in tags THEN <<s[i]>> ELSE <<>>])

Structure(tag) == [tag |-> tag, id |-> 0, attrs |-> {}]

\* execute has read the rest of what it did not read before, then a part of the
\* output of its own code (ExecuteStream), and there is a start tag in it.
ExtractInit ==
  /\ \E before, own \in Outputs :
       \E i \in 0 .. Len(before), j \in 0 .. Len(own) :
         /\ html_output = SubSeq(before, i + 1, Len(before)) \o SubSeq(own, 1, j)
         /\ window = [leftover |-> Len(before) - i, missing |-> Len(own) - j]
  /\ First(html_output, {"<html", "<table"} \cup Divs, 1) # 0
  /\ has_html = FALSE /\ clean_html = <<>>
  /\ pass = "bounds" /\ caption_pos = 1

-----------------------------------------------------------------------------
LastOf(tags) == SelectLastInSeq(html_output, LAMBDA t : t.tag \in tags)

\* Mutant: all that follows the start is taken.
End_Everything == Len(html_output)

IsFragment == First(html_output, {"<html"}, 1) = 0

End ==
  IF ~IsFragment /\ LastOf({"</html>"}) # 0 THEN LastOf({"</html>"})
  ELSE IF LastOf({"</div>"}) # 0 THEN LastOf({"</div>"}) ELSE LastOf({"</table>"})

(***************************************************************************)
(* substr(html_start, html_end - html_start).  If the end comes before the *)
(* start, the difference wraps around and everything from the start on is  *)
(* taken; if nothing at all stands between them, it is 0.                  *)
(***************************************************************************)
Extract ==
  /\ pass = "bounds"
  /\ IF End = 0
     THEN pass' = "done" /\ UNCHANGED <<has_html, clean_html>>
     ELSE /\ pass' = "colgroups" /\ has_html' = TRUE
          /\ LET start == Start(html_output)
             IN  \/ End >= start /\ clean_html' = SubSeq(html_output, start, End)
                 \/ /\ End < start
                    /\ clean_html' = SubSeq(html_output, start, Len(html_output))
                 \/ End = start - 1 /\ clean_html' = <<>>
  /\ UNCHANGED <<html_output, window, caption_pos>>

-----------------------------------------------------------------------------
(***************************************************************************)
(* Merge the column groups: what stands from the first to the end of the   *)
(* last is replaced.  A group without an end is the last that is found;    *)
(* then find() + 11 wraps around to 10, a position inside the first tag.   *)
(***************************************************************************)
Colgroups(s) ==
  {i \in DOMAIN s :
     /\ s[i].tag = "<colgroup>"
     /\ \A j \in 1 .. i - 1 :
          s[j].tag = "<colgroup>" => First(s, {"</colgroup>"}, j) \in j .. i}

LastColgroup(s) == CHOOSE i \in Colgroups(s) : \A j \in Colgroups(s) : j <= i

ColgroupsEnd(s) == First(s, {"</colgroup>"}, LastColgroup(s))

InColgroup(s, i) ==
  \E g \in Colgroups(s) : g < i /\ First(s, {"</colgroup>"}, g) \in {0} \cup i .. Len(s)

TotalCols(s) == Cardinality({i \in DOMAIN s : s[i].tag = "<col/>" /\ InColgroup(s, i)})

MergedColgroup(s) ==
  <<Structure("<colgroup>")>>
    \o [i \in 1 .. TotalCols(s) |-> Structure("<col/>")] \o <<Structure("</colgroup>")>>

MergedUpTo(s) == IF ColgroupsEnd(s) = 0 THEN 1 ELSE ColgroupsEnd(s)

MergeColgroups ==
  /\ pass = "colgroups" /\ pass' = "titles"
  /\ clean_html' =
       IF Cardinality(Colgroups(clean_html)) > 1
       THEN Replace(clean_html, First(clean_html, {"<colgroup>"}, 1), MergedUpTo(clean_html),
                    MergedColgroup(clean_html))
       ELSE clean_html
  /\ UNCHANGED <<html_output, window, has_html, caption_pos>>

-----------------------------------------------------------------------------
\* A title container goes up to the next </div>.
Titles(s) == {i \in DOMAIN s : s[i].tag = "<titlediv" /\ First(s, {"</div>"}, i) # 0}

NextPass_OneTitle == "styles"   \* mutant: only one title is removed
NextPass == IF Titles(clean_html) = {} THEN "styles" ELSE "titles"

RemoveTitle ==
  /\ pass = "titles" /\ pass' = NextPass
  /\ \/ Titles(clean_html) = {} /\ UNCHANGED clean_html
     \/ \E i \in Titles(clean_html) :
          /\ \A j \in Titles(clean_html) : i <= j
          /\ clean_html' = Cut(clean_html, i, First(clean_html, {"</div>"}, i))
  /\ UNCHANGED <<html_output, window, has_html, caption_pos>>

-----------------------------------------------------------------------------
(***************************************************************************)
(* Two loops, for one attribute each.  A round erases the next one that is *)
(* found and goes on where it stood, so none is left before that place.    *)
(* An attribute has its two quotes, since no output is cut within a tag.    *)
(***************************************************************************)
Having(s, name) == {i \in DOMAIN s : name \in s[i].attrs}

Erase_Other(s, i, name) ==   \* mutant: the name of the other loop
  [s EXCEPT ![i].attrs = @ \ {"style"}]
Erase(s, i, name) == [s EXCEPT ![i].attrs = @ \ {name}]

RemoveAttribute(name, next) ==
  /\ \/ Having(clean_html, name) = {} /\ pass' = next /\ UNCHANGED clean_html
     \/ \E i \in Having(clean_html, name) :
          /\ \A j \in Having(clean_html, name) : i <= j
          /\ clean_html' = Erase(clean_html, i, name) /\ UNCHANGED pass
  /\ UNCHANGED <<html_output, window, has_html, caption_pos>>

RemoveStyle == pass = "styles" /\ RemoveAttribute("style", "labels")
RemoveLabel == pass = "labels" /\ RemoveAttribute("aria-label", "head")

-----------------------------------------------------------------------------
\* Mutant: the header follows the body.
InsertHeader_Last(s, header) ==
  LET body == First(s, {"</tbody>"}, 1)
  IN  IF body = 0 THEN s ELSE Replace(s, body, body - 1, header)

InsertHeader(s, header) ==
  LET body == First(s, {"<tbody>"}, 1)
  IN  IF body = 0 THEN s ELSE Replace(s, body + 1, body, header)

\* The content of the first <thead> becomes the beginning of the first <tbody>.
MoveHeader ==
  /\ pass = "head" /\ pass' = "captions"
  /\ LET head == First(clean_html, {"<thead>"}, 1)
         end == First(clean_html, {"</thead>"}, head)
     IN  clean_html' =
           IF head # 0 /\ First(clean_html, {"<tbody>"}, 1) # 0 /\ end # 0
           THEN InsertHeader(Cut(clean_html, head, end), SubSeq(clean_html, head + 1, end - 1))
           ELSE clean_html
  /\ UNCHANGED <<html_output, window, has_html, caption_pos>>

-----------------------------------------------------------------------------
KeptCaption_Relative(from, end) == from + end   \* mutant: end taken as a length
KeptCaption_Front(from, end) == 1               \* mutant: the search begins again
KeptCaption(from, end) == end + 1

\* One round of the loop over the captions; an empty one is removed.
NextCaption ==
  /\ pass = "captions"
  /\ LET from == First(clean_html, {"<caption"}, caption_pos)
         end == First(clean_html, {"</caption>"}, from)
         empty == \A i \in from + 1 .. end - 1 : clean_html[i].id = 0
     IN  \/ /\ from = 0 /\ pass' = "table" /\ UNCHANGED <<clean_html, caption_pos>>
         \/ /\ from # 0 /\ end = 0 /\ caption_pos' = from + 1 /\ UNCHANGED <<pass, clean_html>>
         \/ /\ from # 0 /\ end # 0 /\ empty
            /\ clean_html' = Cut(clean_html, from, end) /\ caption_pos' = from
            /\ UNCHANGED pass
         \/ /\ from # 0 /\ end # 0 /\ ~empty
            /\ caption_pos' = KeptCaption(from, end)
            /\ UNCHANGED <<pass, clean_html>>
  /\ UNCHANGED <<html_output, window, has_html>>

-----------------------------------------------------------------------------
Rebuilt(s) ==
  <<Structure("<table"), Structure("<tbody>")>>
    \o Keep(s, {"row"}) \o <<Structure("</tbody>"), Structure("</table>")>>

\* Mutant: what follows the first table is dropped.
RebuiltUpTo_All(s, end) == Len(s)
RebuiltUpTo(s, end) == end - 1   \* what follows begins with the old </table>

\* The first table is rebuilt from its rows.
FlattenTable ==
  /\ pass = "table" /\ pass' = "done"
  /\ LET table == First(clean_html, {"<table"}, 1)
         end == First(clean_html, {"</table>"}, table)
     IN  clean_html' =
           IF table # 0 /\ end # 0
           THEN Replace(clean_html, table, RebuiltUpTo(clean_html, end),
                        Rebuilt(SubSeq(clean_html, table, end)))
           ELSE clean_html
  /\ UNCHANGED <<html_output, window, has_html, caption_pos>>

ExtractNext ==
  \/ Extract \/ MergeColgroups \/ RemoveTitle \/ RemoveStyle \/ RemoveLabel
  \/ MoveHeader \/ NextCaption \/ FlattenTable

ExtractSpec == ExtractInit /\ [][ExtractNext]_extractVars /\ WF_extractVars(ExtractNext)

-----------------------------------------------------------------------------
(***************************************************************************)
(* Properties.                                                             *)
(***************************************************************************)
ExtractTypeOK ==
  /\ html_output \in Seq(Tokens) /\ clean_html \in Seq(Tokens)
  /\ window \in [leftover : Nat, missing : Nat]
  /\ has_html \in BOOLEAN
  /\ pass \in {"bounds", "colgroups", "titles", "styles", "labels", "head", "captions",
               "table", "done"}
  /\ pass # "done" => caption_pos \in 1 .. Len(clean_html) + 1

Shown == {"row", "img"}
Plain(s) == [i \in DOMAIN s |-> [s[i] EXCEPT !.attrs = {}]]
Content(s) == Keep(Plain(s), Shown)

(***************************************************************************)
(* The outputs that the passes are made for.  Nothing to be shown and no   *)
(* header stands before the start; the column groups are those of one      *)
(* table and stand together; no body comes before the first header.        *)
(***************************************************************************)
ShownFromStart(s) == \A i \in 1 .. Start(s) - 1 : s[i].tag \notin Shown \cup {"<thead>"}

ColumnsTogether(s) ==
  \A i, j, k \in DOMAIN s :
    i < j /\ j < k /\ s[i].tag = "<colgroup>" /\ s[k].tag = "<colgroup>" =>
      s[j].tag \notin Shown \cup {"<thead>", "</table>"}

HeaderFits(s) ==
  \A i, j \in DOMAIN s :
    i < j /\ s[i].tag = "<tbody>" /\ s[j].tag = "<thead>" =>
      \E k \in 1 .. i : s[k].tag = "<thead>"

Tame(s) == ShownFromStart(s) /\ ColumnsTogether(s) /\ HeaderFits(s)

\* All that is to be shown stands before the tag at which the text is cut off.
Framed(s) ==
  LET Before(close) ==
        \A i \in DOMAIN s : s[i].tag \in Shown => \E k \in i .. Len(s) : s[k].tag = close
  IN  \/ First(s, {"<html"}, 1) # 0 /\ Before("</html>")
      \/ First(s, {"<html"}, 1) = 0 /\ Before("</div>")
      \/ First(s, {"<html", "</div>"} \cup Divs, 1) = 0 /\ Before("</table>")

FromItsStart == window.leftover = 0
Whole == FromItsStart /\ window.missing = 0

\* No pass loses, repeats or reorders a row or a picture of what is shown; if the
\* end of the output was not read, they are still the first ones.
ContentKept ==
  FromItsStart /\ has_html /\ Tame(html_output) =>
    /\ IsPrefix(Content(clean_html), Content(html_output))
    /\ Framed(html_output) => Content(clean_html) = Content(html_output)

(***************************************************************************)
(* Nesting.  What is open at a place in the text: a document, in it any    *)
(* number of divisions, in these a title or a table, in this one of the    *)
(* parts of a table.  A tag where it may not stand leads astray for good.  *)
(***************************************************************************)
TableParts == {"<colgroup>", "<thead>", "<tbody>", "<caption"}

Place == [document : BOOLEAN, divs : Nat,
          within : {"body", "<titlediv", "<table", "stray"} \cup TableParts]

Outside == [document |-> FALSE, divs |-> 0, within |-> "body"]
InDocument == [document |-> TRUE, divs |-> 0, within |-> "body"]
Stray == [document |-> FALSE, divs |-> 0, within |-> "stray"]

Holder(open) ==
  CASE open \in TableParts -> "<table"
    [] open \in {"<table", "<titlediv"} -> "body"
    [] OTHER -> "none"

Closer(open) ==
  CASE open = "<titlediv" -> "</div>" [] open = "<table" -> "</table>"
    [] open = "<colgroup>" -> "</colgroup>" [] open = "<thead>" -> "</thead>"
    [] open = "<tbody>" -> "</tbody>" [] open = "<caption" -> "</caption>"
    [] OTHER -> "none"

Behind(place, token) ==
  LET tag == token.tag
      inBody == place.within = "body"
  IN  CASE tag \in {"<col/>", "row", "img", "text"} -> place
        [] tag = "<html" /\ place = Outside -> InDocument
        [] tag = "</html>" /\ place = InDocument -> Outside
        [] tag = "<div" /\ inBody -> [place EXCEPT !.divs = place.divs + 1]
        [] tag = "</div>" /\ inBody /\ place.divs > 0 -> [place EXCEPT !.divs = place.divs - 1]
        [] Holder(tag) = place.within -> [place EXCEPT !.within = tag]
        [] tag = Closer(place.within) -> [place EXCEPT !.within = Holder(place.within)]
        [] OTHER -> Stray

WellNested(s) ==
  LET place[n \in 0 .. Len(s)] == IF n = 0 THEN Outside ELSE Behind(place[n - 1], s[n])
  IN  place[Len(s)] = Outside

ColumnsOfOneTable(s) ==
  \A i, j, k \in DOMAIN s :
    i < j /\ j < k /\ s[i].tag = "<colgroup>" /\ s[k].tag = "<colgroup>" => s[j].tag # "</table>"

\* The string edits keep the nesting of the tags: whatever they cut out or move,
\* what comes of a well nested text is well nested after every pass, but for the
\* one old </table> that follows the rebuilt table.
NestingKept ==
  has_html /\ WellNested(html_output) /\ ColumnsOfOneTable(html_output) =>
    LET end == First(clean_html, {"</table>"}, 1)
    IN  \/ WellNested(clean_html)
        \/ /\ pass = "done" /\ end # 0 /\ end < Len(clean_html)
           /\ clean_html[end + 1].tag = "</table>" /\ WellNested(RemoveAt(clean_html, end + 1))

\* The end of the column groups is only looked for where there is one, unless
\* the output of another execution comes first.
ColgroupsEndFound ==
  pass = "colgroups" /\ FromItsStart /\ Cardinality(Colgroups(clean_html)) > 1
    => ColgroupsEnd(clean_html) # 0

\* Wherever what was read begins and ends: at last no title, no style and no empty
\* caption is left, and the first table has rows in it and nothing else.
Simplified ==
  pass = "done" /\ has_html =>
    LET table == First(clean_html, {"<table"}, 1)
        end == First(clean_html, {"</table>"}, table)
        caption == {i \in DOMAIN clean_html : clean_html[i].tag = "<caption"}
    IN  /\ Titles(clean_html) = {}
        /\ \A i \in DOMAIN clean_html : clean_html[i].attrs = {}
        /\ \A i \in caption :
             LET close == First(clean_html, {"</caption>"}, i)
             IN  close # 0 => \E j \in i .. close : clean_html[j].id # 0
        /\ table # 0 /\ end # 0 =>
             \A i \in table + 2 .. end - 2 : clean_html[i].tag = "row"

\* What the loops over titles, attributes and captions still have before them.
Ahead ==
  CASE pass = "titles" -> Len(clean_html)
    [] pass = "styles" -> Cardinality(Having(clean_html, "style"))
    [] pass = "labels" -> Cardinality(Having(clean_html, "aria-label"))
    [] pass = "captions" -> Len(clean_html) + 1 - caption_pos
    [] OTHER -> 0

Passes == <<"bounds", "colgroups", "titles", "styles", "labels", "head", "captions", "table",
            "done">>

\* No text is searched again for what was found and left where it is: every step
\* goes on to a later pass, or leaves its loop with less to go, also where an
\* element is never closed.  So the four loops over titles, attributes and captions
\* end; column groups are counted in one step, and the cells are TableFlatten's.
ExtractionAdvances ==
  [][\/ \E i, j \in DOMAIN Passes : i < j /\ Passes[i] = pass /\ Passes[j] = pass'
     \/ pass' = pass /\ Ahead' \in Nat /\ Ahead' < Ahead]_extractVars

\* Therefore, as long as execute is not stopped in between, all passes are run.
ExtractionEnds == <>(pass = "done")

\* All that was read to its end is shown, tables after the first included.
ContentShown == Whole /\ pass = "done" => Content(clean_html) = Content(html_output)
=============================================================================
