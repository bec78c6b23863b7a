----------------------------- MODULE ToolInputs -----------------------------
(***************************************************************************)
(* The pure parts of the standard tools (src/tools): how the input a model *)
(* proposes is validated, how paths are resolved, how long texts are cut   *)
(* and what curl's output comes to.  A path is a sequence of segments; an  *)
(* argument or a URL is named by what the validators ask of it.            *)
(***************************************************************************)
EXTENDS Integers, Sequences, SequencesExt

CONSTANTS
  Root,             \* ToolOptions.workspaceRoot, as segments
  MaxOutput,        \* ToolOptions.maxOutputChars
  MaxListEntries    \* MAX_LIST_ENTRIES: 500

\* The segments of a path that stand for nothing.
Skipped == {"", "."}

\* '/workspace', wherever the tools are made (DEFAULT_TOOL_OPTIONS).
ASSUME ToolOptionsAssumption ==
  /\ MaxOutput \in Nat \ {0} /\ MaxListEntries \in Nat \ {0}
  /\ Root # << >> /\ Root \in Seq(STRING)
  /\ \A k \in DOMAIN Root : Root[k] \notin Skipped \cup {".."}

FileTools == {"fs.read", "fs.write", "fs.list", "fs.delete"}
HttpTools == {"http.request", "web.fetch"}
ToolNames == FileTools \cup HttpTools \cup {"shell.run", "code.run", "git", "web.search"}

\* A mutant: ".." is a segment like any other.
Normalise_KeepsParents(segments) ==
  SelectSeq(segments, LAMBDA segment : segment \notin Skipped)

(* normalisePosix *)
Normalise(segments) ==
  LET done[i \in 0 .. Len(segments)] ==
        IF i = 0 THEN << >>
        ELSE IF segments[i] \in Skipped \/ (segments[i] = ".." /\ done[i - 1] = << >>)
             THEN done[i - 1]
        ELSE IF segments[i] = ".." THEN Front(done[i - 1])
        ELSE Append(done[i - 1], segments[i])
  IN  done[Len(segments)]

(* The path a proposed one stands for; a relative one starts at the root. *)
Resolved(path) == Normalise(IF path.absolute THEN path.segments ELSE Root \o path.segments)

(* resolveWorkspacePath; the empty string is the relative path of no segment. *)
StaysInside(path) ==
  /\ path.absolute \/ path.segments # << >>
  /\ IsPrefix(Root, Resolved(path))

(* validateGitArgs, on the classes of arguments it tells apart. *)
RemoteSubcommands == {"clone", "remote", "fetch", "pull"}
LocalSubcommands ==
  {"init", "status", "log", "diff", "show", "add", "rm", "mv", "commit", "checkout", "switch",
   "branch", "tag", "rev-parse", "ls-files", "stash", "reset", "restore", "merge", "rebase",
   "blame", "describe"}
GitArgsAllowed(args) ==
  /\ args # << >>
  /\ Head(args) \in RemoteSubcommands \cup LocalSubcommands
  /\ \A i \in 2 .. Len(args) :
       /\ args[i] \notin {"configuring", "nul"}
       /\ Head(args) \in RemoteSubcommands => args[i] \notin {"ssh_url", "url_with_credentials"}

(* validateUrl and validateHeaders. *)
UrlAllowed(url) == url \in {"http", "https"}

(* parseInput of each tool. `fits` says that every field has the type and range the readers of
   support/input.ts ask for; http.request's headers count among them. *)
Parses(tool, raw) ==
  /\ raw.fits
  /\ tool \in FileTools \cup {"shell.run", "git"} => StaysInside(raw.path)
  /\ tool = "fs.delete" => Resolved(raw.path) # Root
  /\ tool \in HttpTools => UrlAllowed(raw.url)
  /\ tool = "git" => GitArgsAllowed(raw.args)

(* The cap on a text: the proposal may lower it. 0 stands for none proposed. *)
Cap(proposed) == IF proposed = 0 \/ proposed > MaxOutput THEN MaxOutput ELSE proposed

(* capText, of a text of that length. `total` is what there was to show. *)
CapText(length, cap) ==
  [shown |-> IF length <= cap THEN length ELSE cap, total |-> length, truncated |-> length > cap]

-----------------------------------------------------------------------------
(* A response: `exit` and `status` are curl's, `units` the UTF-16 units of the body received,
   `width` the bytes that one character takes. Three bytes make one unit, four make two. *)
Units(bytes, width) ==
  (IF width = 4 THEN 2 ELSE 1) * (bytes \div width) + (IF bytes % width = 0 THEN 0 ELSE 1)

(* curlRequest cuts the file at four bytes per character, parseCurlOutput the text. *)
Body(response, cap) ==
  LET bytes == response.chars * response.width
      read == Units(IF bytes > 4 * cap THEN 4 * cap ELSE bytes, response.width)
  IN [shown |-> CapText(read, cap).shown, total |-> Units(bytes, response.width),
      truncated |-> CapText(read, cap).truncated \/ bytes > read]

(* parseCurlOutput throws when no status came back. *)
TransportFailed(response) == response.exit # 0 /\ response.status = 0

\* A mutant: the page counts as whole when its text is.
Page_TextOnly(response, cap) ==
  LET body == Body(response, 8 * cap)
      text == body.shown \div response.markup
  IN [CapText(text, cap) EXCEPT !.total = body.total \div response.markup]

(* web.fetch reads eight times what it returns, and takes the text out of the markup: one
   character of text for `markup` characters of the page. *)
Page(response, cap) ==
  LET body == Body(response, 8 * cap)
      text == body.shown \div response.markup
  IN [shown |-> CapText(text, cap).shown, total |-> body.total \div response.markup,
      truncated |-> CapText(text, cap).truncated \/ body.truncated]

-----------------------------------------------------------------------------
(* describeFailure: the code of an error result and whether it is marked retryable. *)
EnvironmentErrors == {"not_found", "permission_denied", "unavailable", "internal"}
ToolError(cause) ==
  CASE cause \in {"not_found", "permission_denied"} -> [code |-> cause, retryable |-> FALSE]
    [] cause = "unavailable" -> [code |-> cause, retryable |-> TRUE]
    [] OTHER -> [code |-> "execution_failed", retryable |-> TRUE]
=============================================================================
