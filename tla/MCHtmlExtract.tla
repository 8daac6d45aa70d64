---------------------------- MODULE MCHtmlExtract ----------------------------
(* Model-checking outputs for HtmlExtract. *)
EXTENDS HtmlExtract

T(tag) == Structure(tag)
Item(tag, n) == [tag |-> tag, id |-> n, attrs |-> {}]
Styled(tag) == [tag |-> tag, id |-> 0, attrs |-> {"style"}]

Title(n) == <<Styled("<titlediv"), Item("text", n), T("</div>")>>
Columns == <<T("<colgroup>"), T("<col/>"), T("</colgroup>")>>
Caption(n) == <<T("<caption"), Item("text", n), T("</caption>")>>

TableOf(columns, caption, n) ==
  <<[Styled("<table") EXCEPT !.attrs = Attributes]>> \o caption \o columns
    \o <<T("<thead>"), Item("row", n), T("</thead>"), T("<tbody>"), Item("row", n + 1),
         T("</tbody>"), T("</table>")>>

Div(content) == <<Styled("<div")>> \o content \o <<T("</div>")>>

\* A procedure with a row header: two column groups, an empty caption.
Listed == Title(1) \o Div(TableOf(Columns \o Columns, Caption(0), 2))

\* A graph.
Graph == Title(1) \o Div(<<[Item("img", 2) EXCEPT !.attrs = {"style"}]>>)

\* A graph between tables without column groups, the second with a caption.
Mixed == Div(TableOf(<<>>, <<>>, 1) \o <<Item("img", 3)>> \o TableOf(<<>>, Caption(4), 5)) \o Title(7)

\* A table on its own, and in a document.
Bare == TableOf(Columns, Caption(1), 2)
Document == <<T("<html")>> \o TableOf(Columns \o Columns, <<>>, 1) \o <<T("</html>")>>

AllOutputs == {Listed, Graph, Mixed, Bare, Document}

\* Two tables, as the code above prints one.
TwoTables == Div(TableOf(Columns, Caption(0), 1) \o TableOf(Columns, Caption(0), 3))
OnlyTwoTables == {TwoTables}
=============================================================================
