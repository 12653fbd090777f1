----------------------------- MODULE CodexToml ------------------------------
(***************************************************************************)
(* How `traces setup codex' turns its plugin on in the user's config.toml: *)
(* enableCodexPlugin and its helpers (internal/cmd/setup_codex.go). The    *)
(* file is edited as text, so that its comments survive; the result is     *)
(* parsed, and if it does not say what it should the parsed document is    *)
(* written instead, without comments.                                      *)
(*                                                                         *)
(* A file is a sequence of lines, each a kind and an argument:             *)
(*   table    a header: [features], [plugins], [plugins."<ref>"], [other]; *)
(*            one with "#" has a comment behind it                         *)
(*   hooks    plugin_hooks = <bool>         enabled  enabled = <bool>      *)
(*   inline   "<ref>" = { enabled = <bool> }                               *)
(*   quoted   a string of several lines, one of which reads [features]     *)
(*   comment                                                               *)
(* A key belongs to the table whose header is the last one above it.       *)
(***************************************************************************)
EXTENDS TracingSetup, SequencesExt, FiniteSets

CONSTANT TomlFiles  \* what config.toml may be before the command

VARIABLES
  toml,      \* config.toml
  original,  \* what it was before the command
  tomlStep   \* "before" or "after" the command

tomlVars == <<toml, original, tomlStep>>

TableLine(name) == <<"table", name>>

TomlLines ==
  {TableLine(name) : name \in {"features", "features#", "plugins", "ref", "ref#", "other"}}
    \cup ({"hooks", "enabled", "inline"} \X {"true", "false"})
    \cup {<<"quoted", "[features]">>, <<"comment", "">>}

ASSUME TomlFilesAssumption == TomlFiles \subseteq Seq(TomlLines)

TomlInit ==
  /\ toml \in TomlFiles
  /\ original = toml
  /\ tomlStep = "before"

-----------------------------------------------------------------------------
\* What a TOML parser makes of the lines (go-toml).

TableName(line) ==
  CASE line[2] = "features#" -> "features" [] line[2] = "ref#" -> "ref" [] OTHER -> line[2]

Headers(lines) == {i \in DOMAIN lines : lines[i][1] = "table"}

Keys(lines) == {i \in DOMAIN lines : lines[i][1] \in {"hooks", "enabled", "inline", "quoted"}}

Above(lines, i) == {h \in Headers(lines) : h < i}

TableOf(lines, i) ==
  IF Above(lines, i) = {} THEN "top"
  ELSE TableName(lines[CHOOSE h \in Above(lines, i) : \A g \in Above(lines, i) : g <= h])

\* No table or key twice; the plugin is not both a table and an inline one.
Parses(lines) ==
  /\ \A h, g \in Headers(lines) : h # g => TableName(lines[h]) # TableName(lines[g])
  /\ \A i, j \in Keys(lines) : i # j => <<TableOf(lines, i), lines[i][1]>> # <<TableOf(lines, j), lines[j][1]>>
  /\ \A i \in Keys(lines), h \in Headers(lines) :
       ~(lines[i][1] = "inline" /\ TableOf(lines, i) = "plugins" /\ TableName(lines[h]) = "ref")

HooksKeys(lines) == {i \in Keys(lines) : lines[i][1] = "hooks" /\ TableOf(lines, i) = "features"}

PluginKeys(lines) ==
  {i \in Keys(lines) : \/ lines[i][1] = "enabled" /\ TableOf(lines, i) = "ref"
                       \/ lines[i][1] = "inline" /\ TableOf(lines, i) = "plugins"}

\* tomlBoolTrue(doc, "features", "plugin_hooks") and codexPluginEnabled(doc).
FeatureOK(lines) == \E i \in HooksKeys(lines) : lines[i][2] = "true"

PluginOK(lines) == \E i \in PluginKeys(lines) : lines[i][2] = "true"

PluginPresent(lines) ==
  \/ PluginKeys(lines) # {}
  \/ \E h \in Headers(lines) : TableName(lines[h]) = "ref"

-----------------------------------------------------------------------------
\* The edit of the text.

LowestOf(S) == CHOOSE i \in S : \A j \in S : i <= j

\* A line that starts with "[", where the search for a key ends.
Bracketed(lines) == {i \in DOMAIN lines : lines[i][1] \in {"table", "quoted"}}

\* The line of the header as text: it must have nothing behind it, but may be
\* within a string.
HeaderLine(lines, name) ==
  {i \in DOMAIN lines : lines[i] = TableLine(name) \/ (name = "features" /\ lines[i][1] = "quoted")}

\* The key below header h is replaced, or inserted under the header; within a
\* string that changes the string only.
SetBelow(lines, h, key) ==
  LET beyond == {i \in Bracketed(lines) : i > h}
      present == {i \in DOMAIN lines : i > h /\ lines[i][1] = key /\ \A j \in beyond : i < j}
  IN  IF present # {} THEN [lines EXCEPT ![LowestOf(present)] = <<key, "true">>]
      ELSE IF lines[h][1] = "quoted" THEN [lines EXCEPT ![h] = <<"quoted", "changed">>]
      ELSE InsertAt(lines, h + 1, <<key, "true">>)

\* ensureTOMLTableKey(text, "features", "plugin_hooks = true").
EnsureFeature(lines) ==
  IF HeaderLine(lines, "features") = {}
  THEN lines \o <<TableLine("features"), <<"hooks", "true">>>>
  ELSE SetBelow(lines, LowestOf(HeaderLine(lines, "features")), "hooks")

\* ensureCodexPluginEnabled; doc is the file as it was parsed.
EnsurePlugin(lines, doc) ==
  IF ~PluginPresent(doc) \/ HeaderLine(lines, "ref") = {}
  THEN lines \o <<TableLine("ref"), <<"enabled", "true">>>>
  ELSE SetBelow(lines, LowestOf(HeaderLine(lines, "ref")), "enabled")

\* The document itself changed and marshalled anew.
SetKey(lines, keys, table, key) ==
  LET headers == {h \in Headers(lines) : TableName(lines[h]) = table}
  IN  IF keys # {} THEN [lines EXCEPT ![LowestOf(keys)][2] = "true"]
      ELSE IF headers # {} THEN InsertAt(lines, LowestOf(headers) + 1, <<key, "true">>)
      ELSE lines \o <<TableLine(table), <<key, "true">>>>

Bare(doc) ==
  LET bare[i \in 0 .. Len(doc)] ==
        IF i = 0 THEN <<>> ELSE IF doc[i][1] # "comment" THEN Append(bare[i - 1], doc[i]) ELSE bare[i - 1]
  IN  bare[Len(doc)]

Marshalled(doc) ==
  LET first == SetKey(Bare(doc), HooksKeys(Bare(doc)), "features", "hooks")
  IN  SetKey(first, PluginKeys(first), "ref", "enabled")

Edited(lines) ==
  LET feature == IF FeatureOK(lines) THEN lines ELSE EnsureFeature(lines)
  IN  IF PluginOK(lines) THEN feature ELSE EnsurePlugin(feature, lines)

SaysSo(lines) == Parses(lines) /\ FeatureOK(lines) /\ PluginOK(lines)

\* enableCodexPlugin: a file that does not parse is left alone, and so is one
\* that has both settings.
EnabledM(lines) == IF ~Parses(lines) \/ SaysSo(lines) THEN lines ELSE Edited(lines)

Enabled(lines) ==
  IF ~Parses(lines) \/ SaysSo(lines) THEN lines
  ELSE IF SaysSo(Edited(lines)) THEN Edited(lines)
  ELSE Marshalled(lines)

EnableCodexPlugin ==
  /\ tomlStep = "before"
  /\ toml' = Enabled(toml)
  /\ tomlStep' = "after"
  /\ UNCHANGED original

TomlNext == EnableCodexPlugin

TomlSpec == TomlInit /\ [][TomlNext]_tomlVars

-----------------------------------------------------------------------------
\* Properties.

TomlTypeOK == toml \in Seq(TomlLines \cup {<<"quoted", "changed">>}) /\ tomlStep \in {"before", "after"}

\* What the user set besides the two settings.
UserSettings(lines) ==
  {<<TableOf(lines, i), lines[i]>> : i \in Keys(lines) \ (HooksKeys(lines) \cup PluginKeys(lines))}

\* A file with no header or string the edit of the text cannot place.
IsPlain(lines) ==
  \A i \in DOMAIN lines : lines[i] \notin {TableLine("features#"), TableLine("ref#")} /\ lines[i][1] \notin {"quoted", "inline"}

CommentLines(lines) == Cardinality({i \in DOMAIN lines : lines[i][1] = "comment"})

(***************************************************************************)
(* A config.toml that parses still parses after the command, turns the     *)
(* plugin and its hooks on, and sets everything else as before; in a plain *)
(* file no comment is lost either (enableCodexPlugin).                     *)
(***************************************************************************)
EditKeepsSettings ==
  tomlStep = "after" /\ Parses(original) =>
    /\ SaysSo(toml)
    /\ UserSettings(toml) = UserSettings(original)
    /\ IsPlain(original) => CommentLines(toml) = CommentLines(original)

\* An edit of either setup keeps what the agent's settings said beside its own keys,
\* and a key goes to the endpoint it was given or stored for (TracingSetup).
SetupIsSound == EditKeepsSettings /\ KeyGoesToItsEndpoint
=============================================================================
