---------------------------- MODULE RequestText ----------------------------
(***************************************************************************)
(* The text of a request file (core/format): the quoting of its words, the *)
(* body of comments, assignments and one command, the command lines of the *)
(* five kinds of request, and the canonical writer.  What the user types   *)
(* in a file grows by a token at a time.                                   *)
(***************************************************************************)
EXTENDS Naturals, Sequences, SequencesExt, FiniteSets

CONSTANT MaxTyped   \* kind of text -> tokens typed

VARIABLES typedKind, typed

textVars == <<typedKind, typed>>

-----------------------------------------------------------------------------
\* Words.  "a" stands for every character that means nothing, ";" for every
\* operator of the shell that is refused.
WordChars == {"a", "'", "\"", "\\", "$", "{", "}", ";", " ", "\n"}

\* Positions of "${".
RefStarts(v) == {i \in 1 .. Len(v) - 1 : v[i] = "$" /\ v[i + 1] = "{"}

\* Variant: nothing is escaped inside double quotes.
EscapedBare(v, i) == <<v[i]>>

\* A character of a value in double quotes.
Escaped(v, i) ==
  IF v[i] \in {"\\", "\""} \/ (v[i] = "$" /\ i \notin RefStarts(v)) THEN <<"\\", v[i]>> ELSE <<v[i]>>

\* quoteShellValue.
QuoteShellValue(v) ==
  IF RefStarts(v) = {}
  THEN <<"'">> \o FlattenSeq([i \in DOMAIN v |-> IF v[i] = "'" THEN <<"'", "\\", "'", "'">>
                                                              ELSE <<v[i]>>]) \o <<"'">>
  ELSE <<"\"">> \o FlattenSeq([i \in DOMAIN v |-> Escaped(v, i)]) \o <<"\"">>

\* The first c in src from i on; 0 when there is none.
IndexOf(src, c, i) ==
  LET at == {k \in i .. Len(src) : src[k] = c}
  IN IF at = {} THEN 0 ELSE CHOOSE k \in at : \A j \in at : k <= j

\* readDollar at i: where it ends, 0 when it is refused.
ReadDollar(src, i) ==
  LET next == IF i < Len(src) THEN src[i + 1] ELSE " "
  IN CASE next = "{" -> IF IndexOf(src, "}", i + 2) = 0 THEN 0 ELSE IndexOf(src, "}", i + 2) + 1
       [] next = "a" -> 0
       [] OTHER -> i + 1

Refused == [ok |-> FALSE, tokens |-> <<>>]

RECURSIVE Words(_, _, _)
\* tokenizeCommandText from character i; w is the word so far, w.quote the quotes it
\* is in, w.on whether there is one.
Words(src, i, w) ==
  LET text(s) == [w EXCEPT !.text = @ \o s, !.on = TRUE]
      c == src[i]
      end == ReadDollar(src, i)
  IN CASE i > Len(src) ->
            IF w.quote # "none" THEN Refused
            ELSE [ok |-> TRUE, tokens |-> IF w.on THEN Append(w.done, w.text) ELSE w.done]
       [] i <= Len(src) /\ w.quote = "single" ->
            Words(src, i + 1, IF c = "'" THEN [w EXCEPT !.quote = "none"] ELSE text(<<c>>))
       [] i <= Len(src) /\ w.quote # "single" /\ c = "$" ->
            IF end = 0 THEN Refused ELSE Words(src, end, text(SubSeq(src, i, end - 1)))
       [] i <= Len(src) /\ w.quote = "double" /\ c # "$" ->
            CASE c = "\"" -> Words(src, i + 1, [w EXCEPT !.quote = "none"])
              [] c = "\\" ->
                   IF i = Len(src) THEN Refused
                   ELSE Words(src, i + 2, text(IF src[i + 1] \in {"\"", "\\", "$"} THEN <<src[i + 1]>>
                                               ELSE <<"\\", src[i + 1]>>))
              [] OTHER -> Words(src, i + 1, text(<<c>>))
       [] OTHER ->
            CASE c = " " -> Words(src, i + 1, IF w.on THEN [done |-> Append(w.done, w.text),
                                                text |-> <<>>, on |-> FALSE, quote |-> "none"] ELSE w)
              [] c = "'" -> Words(src, i + 1, [w EXCEPT !.quote = "single", !.on = TRUE])
              [] c = "\"" -> Words(src, i + 1, [w EXCEPT !.quote = "double", !.on = TRUE])
              [] c = "\\" -> IF i = Len(src) THEN Refused ELSE Words(src, i + 2, text(<<src[i + 1]>>))
              [] c = ";" -> Refused
              [] OTHER -> Words(src, i + 1, text(<<c>>))

TokenizeCommandText(src) ==
  Words(src, 1, [done |-> <<>>, text |-> <<>>, on |-> FALSE, quote |-> "none"])

RECURSIVE ScanLine(_, _, _)
\* scanLine from character i of a physical line.
ScanLine(line, i, quote) ==
  CASE i > Len(line) -> [quote |-> quote, continues |-> FALSE]
    [] i <= Len(line) /\ quote = "single" ->
         ScanLine(line, i + 1, IF line[i] = "'" THEN "none" ELSE quote)
    [] i <= Len(line) /\ quote # "single" /\ line[i] = "\\" ->
         IF i = Len(line) THEN [quote |-> quote, continues |-> TRUE] ELSE ScanLine(line, i + 2, quote)
    [] i <= Len(line) /\ quote # "single" /\ line[i] = "\"" ->
         ScanLine(line, i + 1, IF quote = "double" THEN "none" ELSE "double")
    [] OTHER -> ScanLine(line, i + 1, IF quote = "none" /\ line[i] = "'" THEN "single" ELSE quote)

RECURSIVE JoinLines(_, _)
\* The command of parseBody: its first physical line, and the next ones while the
\* line continues or a quote is open.  Anything after it is refused.
JoinLines(text, quote) ==
  LET nl == IndexOf(text, "\n", 1)
      line == IF nl = 0 THEN text ELSE SubSeq(text, 1, nl - 1)
      rest == IF nl = 0 THEN <<>> ELSE SubSeq(text, nl + 1, Len(text))
      scan == ScanLine(line, 1, quote)
      joined == JoinLines(rest, scan.quote)
  IN CASE scan.continues -> [ok |-> nl # 0 /\ joined.ok, text |-> Front(line) \o joined.text]
       [] ~scan.continues /\ scan.quote # "none" /\ nl # 0 ->
            [ok |-> joined.ok, text |-> Append(line, "\n") \o joined.text]
       [] OTHER -> [ok |-> \A k \in DOMAIN rest : rest[k] \in {" ", "\n"}, text |-> line]

\* The words of a command as it stands in a file.
ReadWords(text) ==
  LET joined == JoinLines(text, "none")
  IN IF joined.ok THEN TokenizeCommandText(joined.text) ELSE Refused

-----------------------------------------------------------------------------
\* Bodies.  A line is an assignment (name and value), a comment, or the command.
BodyLines == {[line |-> "set", name |-> n, value |-> v] : n \in {1, 2}, v \in {"x", "y"}}
               \cup {[line |-> "note", name |-> k, value |-> ""] : k \in {1, 2}}
               \cup {[line |-> "command", name |-> 0, value |-> ""]}

Sets(lines) == SelectSeq(lines, LAMBDA l : l.line = "set")

\* parseBody: one command, and nothing but comments after it.
ParseBody(lines) ==
  LET at == {i \in DOMAIN lines : lines[i].line = "command"}
      before(i) == Cardinality({k \in 1 .. i - 1 : lines[k].line # "note"})
      notes == SelectSeq([i \in DOMAIN lines |-> [l |-> lines[i], before |-> before(i)]],
                         LAMBDA n : n.l.line = "note")
  IN [ok |-> Cardinality(at) = 1 /\ \A i \in DOMAIN lines, c \in at : i > c => lines[i].line = "note",
      variables |-> Sets(lines),
      comments |-> [k \in DOMAIN notes |-> [text |-> notes[k].l, beforeStatement |-> notes[k].before]]]

\* Variant: the comments are looked up by the sorted place.
CommentsBySorted(file, sorted, i) == i - 1

\* The statement whose comments stand before the i-th sorted assignment.
CommentsAt(file, sorted, i) == sorted[i].originalIndex

\* writeRequestFile: the assignments sorted, each with its comments.
WriteBody(file) ==
  LET decls == [i \in DOMAIN file.variables |-> [decl |-> file.variables[i], originalIndex |-> i - 1]]
      sorted == SortSeq(decls, LAMBDA a, b : IF a.decl.name = b.decl.name
                                             THEN a.originalIndex < b.originalIndex
                                             ELSE a.decl.name < b.decl.name)
      notes(test(_)) == LET of == SelectSeq(file.comments, LAMBDA c : test(c.beforeStatement))
                        IN [k \in DOMAIN of |-> of[k].text]
      n == Len(file.variables)
  IN FlattenSeq([i \in DOMAIN sorted |->
                   Append(notes(LAMBDA b : b = CommentsAt(file, sorted, i)), sorted[i].decl)])
       \o Append(notes(LAMBDA b : b = n), [line |-> "command", name |-> 0, value |-> ""])
       \o notes(LAMBDA b : b > n)

\* The statement a comment was written for, by what it says.
NotedStatements(file) ==
  {[text |-> c.text, of |-> IF c.beforeStatement < Len(file.variables)
                            THEN file.variables[c.beforeStatement + 1].name
                            ELSE 90 + c.beforeStatement - Len(file.variables)] : c \in ToSet(file.comments)}

-----------------------------------------------------------------------------
\* Command lines, as flags with their value.  A file value is written "@".
Flag(f, v) == [flag |-> f, value |-> v]
CurlFlags == {Flag("--request", "GET"), Flag("--url", "u"), Flag("", "u"), Flag("--header", "h"),
              Flag("--data", "t"), Flag("--data", "@t"), Flag("--form", "n"), Flag("--user", "x"),
              Flag("--insecure", ""), Flag("--compressed", "")}

Values(flags, name) == LET of == SelectSeq(flags, LAMBDA f : f.flag = name)
                       IN [k \in DOMAIN of |-> of[k].value]

\* mapCurlCommand: flags in any order, one of a kind but for headers and forms.
MapCurl(flags) ==
  LET url == Values(flags, "--url") \o Values(flags, "")
      data == Values(flags, "--data")
      form == Values(flags, "--form")
      one(s) == IF s = <<>> THEN "none" ELSE s[1]
  IN [ok |-> /\ Len(url) = 1 /\ Len(data) <= 1 /\ Len(Values(flags, "--user")) <= 1
             /\ Len(Values(flags, "--request")) <= 1 /\ Values(flags, "--compressed") = <<>>
             /\ ~(data # <<>> /\ form # <<>>),
      method |-> IF Values(flags, "--request") # <<>> THEN one(Values(flags, "--request"))
                 ELSE IF data # <<>> \/ form # <<>> THEN "POST" ELSE "GET",
      url |-> one(url), headers |-> Values(flags, "--header"), body |-> one(data), form |-> form,
      user |-> one(Values(flags, "--user")), insecure |-> Values(flags, "--insecure") # <<>>]

\* Variant: the method is left out when it is the usual one.
MethodShort(http) == IF http.method = "GET" THEN <<>> ELSE <<Flag("--request", http.method)>>

MethodFlag(http) == <<Flag("--request", http.method)>>

\* curlLines: forms win over a body.
CurlLines(http) ==
  MethodFlag(http) \o <<Flag("--url", http.url)>>
    \o [k \in DOMAIN http.headers |-> Flag("--header", http.headers[k])]
    \o (IF http.form # <<>> THEN [k \in DOMAIN http.form |-> Flag("--form", http.form[k])]
        ELSE IF http.body # "none" THEN <<Flag("--data", http.body)>> ELSE <<>>)
    \o (IF http.user # "none" THEN <<Flag("--user", http.user)>> ELSE <<>>)
    \o (IF http.insecure THEN <<Flag("--insecure", "")>> ELSE <<>>)

\* The inspector.  A flag without a name is a word of its own: after --cli, a part of
\* the server's command line, dashes or not.
McpFlags == {Flag("", "http"), Flag("", "-y"), Flag("--transport", "stdio"), Flag("--transport", "http"),
             Flag("--header", "h"), Flag("-e", "v"), Flag("--method", "tools/list"),
             Flag("--method", "tools/call"), Flag("--tool-name", "t"), Flag("--tool-arg", "g")}

\* mapInspectorCommand.
MapInspector(flags) ==
  LET count == CHOOSE n \in 0 .. Len(flags) : /\ \A i \in 1 .. n : flags[i].flag = ""
                                              /\ n = Len(flags) \/ flags[n + 1].flag # ""
      rest == SubSeq(flags, count + 1, Len(flags))
      target == [i \in 1 .. count |-> flags[i].value]
      last(s) == IF s = <<>> THEN "none" ELSE Last(s)
      transport == IF Values(rest, "--transport") # <<>> THEN last(Values(rest, "--transport"))
                   ELSE IF target = <<"http">> THEN "http" ELSE "stdio"
      method == last(Values(rest, "--method"))
      toolName == last(Values(rest, "--tool-name"))
  IN [ok |-> /\ Values(rest, "") = <<>> /\ count > 0 /\ method # "none"
             /\ transport = "http" => count = 1 /\ Values(rest, "-e") = <<>>
             /\ transport = "stdio" => Values(rest, "--header") = <<>>
             /\ method = "tools/call" => toolName # "none"
             /\ method # "tools/call" => toolName = "none" /\ Values(rest, "--tool-arg") = <<>>,
      target |-> target, transport |-> transport, headers |-> Values(rest, "--header"),
      env |-> Values(rest, "-e"), method |-> method, toolName |-> toolName,
      toolArgs |-> Values(rest, "--tool-arg")]

\* Variant: the transport is left to be guessed.
TransportGuessed(mcp) == <<>>

TransportFlag(mcp) == <<Flag("--transport", mcp.transport)>>

\* mcpLines: the server's words before any flag.
McpLines(mcp) ==
  [k \in DOMAIN mcp.target |-> Flag("", mcp.target[k])]
    \o TransportFlag(mcp)
    \o [k \in DOMAIN mcp.headers |-> Flag("--header", mcp.headers[k])]
    \o [k \in DOMAIN mcp.env |-> Flag("-e", mcp.env[k])]
    \o <<Flag("--method", mcp.method)>>
    \o (IF mcp.toolName # "none" THEN <<Flag("--tool-name", mcp.toolName)>> ELSE <<>>)
    \o [k \in DOMAIN mcp.toolArgs |-> Flag("--tool-arg", mcp.toolArgs[k])]

\* The last of a flag that is read into a variable.
LastOf(s) == IF s = <<>> THEN "none" ELSE Last(s)
Optional(flag, v) == IF v = "none" THEN <<>> ELSE <<Flag(flag, v)>>
Each(flag, vs) == [k \in DOMAIN vs |-> Flag(flag, vs[k])]

\* grpcurl: two words that are no flags, in this order.
GrpcFlags == {Flag("", "t"), Flag("", "m"), Flag("-plaintext", ""), Flag("-insecure", ""), Flag("-H", "h"),
              Flag("-proto", "p"), Flag("-import-path", "i"), Flag("-d", "x"), Flag("-d", "y"),
              Flag("-max-time", "1"), Flag("-v", "")}

\* mapGrpcurlCommand.
MapGrpcurl(flags) ==
  LET positionals == Values(flags, "")
  IN [ok |-> Len(positionals) = 2 /\ Values(flags, "-v") = <<>>,
      positionals |-> positionals, metadata |-> Values(flags, "-H"),
      protoFiles |-> Values(flags, "-proto"), importPaths |-> Values(flags, "-import-path"),
      plaintext |-> Values(flags, "-plaintext") # <<>>, insecure |-> Values(flags, "-insecure") # <<>>,
      data |-> LastOf(Values(flags, "-d")), maxTimeSeconds |-> LastOf(Values(flags, "-max-time"))]

GrpcLines(grpc) ==
  (IF grpc.plaintext THEN <<Flag("-plaintext", "")>> ELSE <<>>)
    \o (IF grpc.insecure THEN <<Flag("-insecure", "")>> ELSE <<>>)
    \o Each("-import-path", grpc.importPaths) \o Each("-proto", grpc.protoFiles)
    \o Each("-H", grpc.metadata) \o Optional("-d", grpc.data)
    \o Optional("-max-time", grpc.maxTimeSeconds) \o Each("", grpc.positionals)

\* mosquitto_pub and mosquitto_sub: the command's name is the first word.
MqttHeads == {Flag("mosquitto_pub", ""), Flag("mosquitto_sub", "")}
MqttFlags == {Flag("-h", "h"), Flag("-h", "g"), Flag("-t", "t"), Flag("-p", "1"), Flag("-q", "0"),
              Flag("-r", ""), Flag("-m", "m"), Flag("-i", "c"), Flag("-u", "u"), Flag("-P", "s"),
              Flag("--cafile", "f"), Flag("", "x")}

\* mapMosquittoCommand.
MapMosquitto(flags) ==
  LET last(f) == LastOf(Values(flags, f))
      publish == flags # <<>> /\ flags[1].flag = "mosquitto_pub"
  IN [ok |-> /\ Values(flags, "") = <<>> /\ last("-h") # "none" /\ last("-t") # "none"
             /\ publish => last("-m") # "none",
      publish |-> publish, retain |-> Values(flags, "-r") # <<>>, message |-> last("-m"),
      given |-> [f \in {"-h", "-t", "-p", "-q", "-i", "-u", "-P", "--cafile"} |-> last(f)]]

\* mqttLines: a subscription is written without a message.
MqttLines(mqtt) ==
  <<Flag(IF mqtt.publish THEN "mosquitto_pub" ELSE "mosquitto_sub", "")>>
    \o FlattenSeq([k \in 1 .. 4 |-> LET f == <<"-h", "-p", "-t", "-q">>[k] IN Optional(f, mqtt.given[f])])
    \o (IF mqtt.retain THEN <<Flag("-r", "")>> ELSE <<>>)
    \o FlattenSeq([k \in 1 .. 4 |-> LET f == <<"-i", "-u", "-P", "--cafile">>[k]
                                     IN Optional(f, mqtt.given[f])])
    \o (IF mqtt.publish THEN Optional("-m", mqtt.message) ELSE <<>>)

\* websocat: one word that is no flag; -H is short for --header.
WsFlags == {Flag("", "u"), Flag("", "v"), Flag("-H", "h"), Flag("--header", "g"), Flag("--protocol", "p"),
            Flag("--insecure", "")}

\* mapWebsocatCommand.
MapWebsocat(flags) ==
  LET headers == SelectSeq(flags, LAMBDA f : f.flag \in {"-H", "--header"})
  IN [ok |-> /\ Len(Values(flags, "")) = 1 /\ Len(Values(flags, "--protocol")) <= 1
             /\ Values(flags, "--insecure") = <<>>,
      url |-> LastOf(Values(flags, "")), protocol |-> LastOf(Values(flags, "--protocol")),
      headers |-> [k \in DOMAIN headers |-> headers[k].value]]

WebsocatLines(ws) ==
  <<Flag("", ws.url)>> \o Each("--header", ws.headers) \o Optional("--protocol", ws.protocol)

-----------------------------------------------------------------------------
TypedTokens(kind) == CASE kind = "word" -> WordChars
                       [] kind = "body" -> BodyLines
                       [] kind = "curl" -> CurlFlags
                       [] kind = "grpc" -> GrpcFlags
                       [] kind = "mqtt" -> IF typed = <<>> THEN MqttHeads ELSE MqttFlags
                       [] kind = "ws" -> WsFlags
                       [] OTHER -> McpFlags

TextInit == typedKind \in {"word", "body", "curl", "grpc", "mqtt", "ws", "mcp"} /\ typed = <<>>

Type ==
  /\ Len(typed) < MaxTyped[typedKind]
  /\ \E t \in TypedTokens(typedKind) : typed' = Append(typed, t)
  /\ UNCHANGED typedKind

TextNext == Type

-----------------------------------------------------------------------------
\* References that end, and hold nothing the writer would escape.
PlainReferences(v) ==
  \A i \in RefStarts(v) :
    /\ IndexOf(v, "}", i + 2) # 0
    /\ \A k \in i + 2 .. IndexOf(v, "}", i + 2) : Escaped(v, k) = <<v[k]>>

\* A value reads back as it was written.
ReadsBack(v) == ReadWords(QuoteShellValue(v)) = [ok |-> TRUE, tokens |-> <<v>>]

\* A file that parses says the same after it was rewritten: each word whose
\* references are plain, however it was quoted and over however many lines; each
\* comment at its own assignment though the assignments are sorted; the command of
\* each kind, whatever flags it was written with, but for the message of a
\* subscription, which sends none; and a second rewrite changes nothing.
RewritesKeepTheFile ==
  /\ typedKind = "word" =>
       LET read == ReadWords(typed)
       IN read.ok => \A w \in ToSet(read.tokens) : PlainReferences(w) => ReadsBack(w)
  /\ typedKind = "body" =>
       LET file == ParseBody(typed)
           again == ParseBody(WriteBody(file))
       IN file.ok => /\ again.ok
                     /\ NotedStatements(again) = NotedStatements(file)
                     /\ WriteBody(again) = WriteBody(file)
                     /\ \A n \in {1, 2} : SelectSeq(again.variables, LAMBDA d : d.name = n)
                                            = SelectSeq(file.variables, LAMBDA d : d.name = n)
  /\ typedKind = "curl" /\ MapCurl(typed).ok =>
       MapCurl(CurlLines(MapCurl(typed))) = MapCurl(typed)
  /\ typedKind = "mcp" /\ MapInspector(typed).ok =>
       MapInspector(McpLines(MapInspector(typed))) = MapInspector(typed)
  /\ typedKind = "grpc" /\ MapGrpcurl(typed).ok =>
       MapGrpcurl(GrpcLines(MapGrpcurl(typed))) = MapGrpcurl(typed)
  /\ typedKind = "mqtt" /\ MapMosquitto(typed).ok =>
       LET read == MapMosquitto(typed)
           again == MapMosquitto(MqttLines(read))
       IN again = IF read.publish THEN read ELSE [read EXCEPT !.message = "none"]
  /\ typedKind = "ws" /\ MapWebsocat(typed).ok =>
       MapWebsocat(WebsocatLines(MapWebsocat(typed))) = MapWebsocat(typed)
=============================================================================
