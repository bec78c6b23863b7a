------------------------------ MODULE MCTools -------------------------------
(* Two files, three contents, an input for every way the validators decide, responses around
   the caps for characters of one, three and four bytes. *)
EXTENDS ToolProperties

A == <<"workspace", "a">>
B == <<"workspace", "b">>
MCRoot == <<"workspace">>
MCFiles == {A, B}

Text == [length |-> 3, marked |-> TRUE, json |-> "invalid", keys |-> {}]
List == [length |-> 2, marked |-> FALSE, json |-> "array", keys |-> {}]
Object == [length |-> 2, marked |-> FALSE, json |-> "object", keys |-> {"k"}]
MCContents == {Text, List, Object}

Relative(segments) == [absolute |-> FALSE, segments |-> segments]
Absolute(segments) == [absolute |-> TRUE, segments |-> segments]

Paths ==
  {Relative(<<"a">>), Relative(<<"x", "", "..", ".", "b">>), Absolute(A), Absolute(MCRoot),
   Absolute(<<"workspace", "..", "a">>), Relative(<<"..", "a">>), Absolute(<<"workspace2">>),
   Relative(<< >>)}

MCInputs ==
  {[NoInput EXCEPT !.path = p, !.content = Text, !.args = <<"status">>] : p \in Paths}
  \cup {[NoInput EXCEPT !.args = a] :
          a \in {<<"push">>, <<"log", "configuring">>, <<"clone", "ssh_url">>,
                 <<"clone", "plain">>}}
  \cup {[NoInput EXCEPT !.url = u, !.cap = c, !.body = b] :
          u \in {"https", "ftp"}, c \in {0, 1}, b \in BOOLEAN}
  \cup {[NoInput EXCEPT !.fits = FALSE]}

Response(exit, status, chars, width, markup) ==
  [exit |-> exit, status |-> status, chars |-> chars, width |-> width, markup |-> markup]
MCResponses ==
  {Response(0, s, n, w, m) : s \in {200}, n \in {0, 2, 5, 17}, w \in {1, 3, 4}, m \in {1, 20}}
  \cup {Response(0, 404, 1, 1, 1), Response(7, 0, 0, 1, 1), Response(28, 200, 1, 1, 1)}

Criterion(kind, path, extra) == [kind |-> kind, path |-> path, extra |-> extra, status |-> 200]
MCGoals ==
  {[structured |-> << >>, prose |-> <<Unparsed, Criterion("file_contains", A, "")>>],
   [structured |-> <<Criterion("file_contains", A, "marker")>>,
    prose |-> <<Criterion("command_exits_zero", <<"make">>, "")>>],
   [structured |-> <<Criterion("json_file", A, "k")>>,
    prose |-> <<Criterion("file_exists", B, "")>>],
   [structured |-> << >>, prose |-> <<Criterion("json_file", A, "toString")>>],
   [structured |-> <<Criterion("http_status", << >>, ""), Criterion("file_exists", MCRoot, "")>>,
    prose |-> <<Criterion("tool_succeeded", << >>, "fs.read")>>]}
=============================================================================
