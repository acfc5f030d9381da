----------------------------- MODULE Variables -----------------------------
(***************************************************************************)
(* What a request is sent with: the variables its file declares, over the  *)
(* session, over the environment (core/vars), and the headers, scripts and *)
(* connection settings its collection and folders give it (core/config,    *)
(* main/config-resolve.ts).  The user edits any of them between two sends. *)
(***************************************************************************)
EXTENDS Naturals, Sequences, SequencesExt, FiniteSets

CONSTANTS
  Names,    \* variable names
  Outer,    \* those the session and the environment may have
  Levels    \* the collection and the folders above a request, outermost first: 1 .. Levels

\* VAR_REF names something.
ASSUME VariablesAssumption == /\ "" \notin Names /\ Outer \subseteq Names
                              /\ Levels \in Nat

VARIABLES
  decls,     \* the Meta rows of the file: name -> raw default, for those declared
  session,   \* name -> value
  env,       \* name -> value
  sidecars   \* per level: collection.json / folder.json

variablesVars == <<decls, session, env, sidecars>>

-----------------------------------------------------------------------------
\* A text is a sequence of literals and references; a reference may carry an
\* inline default.
Lit(s) == [name |-> "", op |-> s]
Ref(n) == [name |-> n, op |-> ""]
RefOr(n) == [name |-> n, op |-> "-"]

\* substitute: a known name is replaced, and the replacement is not scanned again;
\* an unknown one gives way to its inline default or stays.
Substitute(text, values) ==
  FlattenSeq([i \in DOMAIN text |->
    IF text[i].name \in DOMAIN values THEN values[text[i].name]
    ELSE IF text[i].op = "-" /\ text[i].name # "" THEN <<Lit("def")>> ELSE <<text[i]>>])

\* f over g: the entries of both, f's where they share a name.
Over(f, g) == [n \in DOMAIN f \cup DOMAIN g |-> IF n \in DOMAIN f THEN f[n] ELSE g[n]]

NonBlank(f) == [n \in {k \in DOMAIN f : f[k] # <<>>} |-> f[n]]

Base == Over(session, env)

\* The scope of a pass: what is declared and not blank, over session and environment.
Scope(meta) == Over(NonBlank(meta), Base)

\* Variant: one pass.
OnePass == 1

\* Passes of the loop: one more than there are declarations.
Passes == Cardinality(DOMAIN decls) + 1

\* A pass expands the raw values again.
Expand(meta) == [n \in DOMAIN decls |-> Substitute(decls[n], Scope(meta))]

\* The loop of resolveVariables; behind a pass that changes nothing the others change
\* nothing either.
Meta ==
  LET after[k \in Nat] == IF k = 0 THEN decls ELSE Expand(after[k - 1])
  IN after[Passes]

\* ResolveResult.values: a blank declaration only fills a name nothing else defines.
ResolvedValues ==
  LET meta == Meta
  IN Over(NonBlank(meta), Over(Base, meta))

\* extractVarRefs, as a set.
VarRefs(text) == {text[i].name : i \in DOMAIN text} \ {""}

-----------------------------------------------------------------------------
\* A sidecar: there is none, it does not parse, or a config.  Header names are
\* case-insensitive: "h" and "H" are one.
HeaderLists == {<<>>, <<"h">>, <<"H">>, <<"g", "h">>, <<"h", "H">>}
Lower(name) == IF name = "H" THEN "h" ELSE name

\* parseConfig: every known field is validated, one bad field rejects the document.
Sidecars ==
  {[state |-> s, headers |-> <<>>, script |-> FALSE, auth |-> FALSE] : s \in {"none", "invalid"}}
    \cup [state : {"config"}, headers : HeaderLists, script : BOOLEAN, auth : BOOLEAN]

\* Variant: a later header is added, the earlier one stays first.
FirstWins(order, h) ==
  IF \E i \in DOMAIN order : Lower(order[i].name) = Lower(h.name) THEN order ELSE Append(order, h)

\* A header replaces the one of the same name where it stands, else it is added.
PutHeader(order, h) ==
  IF \E i \in DOMAIN order : Lower(order[i].name) = Lower(h.name)
  THEN [i \in DOMAIN order |-> IF Lower(order[i].name) = Lower(h.name) THEN h ELSE order[i]]
  ELSE Append(order, h)

\* The headers of a level put among those of the levels around it.
PutHeaders(order, l) ==
  LET names == sidecars[l].headers
      put[i \in 0 .. Len(names)] ==
        IF i = 0 THEN order ELSE PutHeader(put[i - 1], [name |-> names[i], level |-> l])
  IN put[Len(names)]

Unconfigured == [defaultHeaders |-> <<>>, scripts |-> <<>>, auth |-> 0]

\* A turn of the loop of resolveConfig: what a level has joins or replaces what the
\* levels around it gave.  A level without a valid config is not in the chain.
AddConfig(resolved, l) ==
  IF sidecars[l].state # "config" THEN resolved
  ELSE [defaultHeaders |-> PutHeaders(resolved.defaultHeaders, l),
        scripts |-> IF sidecars[l].script THEN Append(resolved.scripts, l) ELSE resolved.scripts,
        auth |-> IF sidecars[l].auth THEN l ELSE resolved.auth]

\* resolveConfigChain and resolveConfig, outermost first.
ResolveConfig ==
  LET after[l \in 0 .. Levels] == IF l = 0 THEN Unconfigured ELSE AddConfig(after[l - 1], l)
  IN after[Levels]

\* mergeRequestHeaders: the defaults the request does not name, then its own.
MergeRequestHeaders(defaults, own) ==
  FlattenSeq([i \in DOMAIN defaults |->
    IF \E k \in DOMAIN own : Lower(own[k].name) = Lower(defaults[i].name)
    THEN <<>> ELSE <<defaults[i]>>]) \o own

-----------------------------------------------------------------------------
RawValues == {<<>>, <<Lit("x")>>} \cup {<<Ref(n)>> : n \in Names}
               \cup {<<Lit("x"), RefOr(n)>> : n \in Names}

NoSidecar == [state |-> "none", headers |-> <<>>, script |-> FALSE, auth |-> FALSE]

VariablesInit ==
  /\ decls = <<>> /\ session = <<>> /\ env = <<>>
  /\ sidecars = [l \in 1 .. Levels |-> NoSidecar]

\* f with n set to v.
Put(f, n, v) == Over([k \in {n} |-> v], f)

EditMeta(n) ==
  /\ \E v \in RawValues : decls' = Put(decls, n, v)
  /\ UNCHANGED <<session, env, sidecars>>

SetSession(n) ==
  /\ \E v \in {<<Lit("s")>>, <<Ref(n)>>} : session' = Put(session, n, v)
  /\ UNCHANGED <<decls, env, sidecars>>

EditEnv(n) ==
  /\ env' = Put(env, n, <<Lit("e")>>)
  /\ UNCHANGED <<decls, session, sidecars>>

WriteSidecar(l) ==
  /\ decls = <<>> /\ session = <<>> /\ env = <<>>
  /\ \E c \in Sidecars : sidecars' = [sidecars EXCEPT ![l] = c]
  /\ UNCHANGED <<decls, session, env>>

VariablesNext ==
  \/ sidecars = [l \in 1 .. Levels |-> NoSidecar]
       /\ \/ \E n \in Names : EditMeta(n)
          \/ \E n \in Outer : SetSession(n) \/ EditEnv(n)
  \/ \E l \in 1 .. Levels : WriteSidecar(l)

VariablesSpec == VariablesInit /\ [][VariablesNext]_variablesVars

-----------------------------------------------------------------------------
\* The rows can be put in an order in which every value refers to earlier rows only.
Acyclic ==
  \E order \in [DOMAIN decls -> 1 .. Cardinality(DOMAIN decls)] :
    \A n \in DOMAIN decls : \A m \in VarRefs(decls[n]) \cap DOMAIN decls : order[m] < order[n]

\* However long a chain of derived values is, and in whatever order its rows stand,
\* the loop ends on the expansion of every one; a declared value wins over the
\* session and the session over the environment, and a blank row shadows neither.
DerivedValuesAreExpanded ==
  LET meta == Meta
      values == ResolvedValues
  IN /\ Acyclic => \A n \in DOMAIN decls : meta[n] = Substitute(decls[n], Scope(meta))
     /\ DOMAIN values = DOMAIN decls \cup DOMAIN session \cup DOMAIN env
     /\ \A n \in DOMAIN values :
          values[n] = IF n \in DOMAIN decls /\ meta[n] # <<>> THEN meta[n]
                      ELSE IF n \in DOMAIN session THEN session[n]
                      ELSE IF n \in DOMAIN env THEN env[n]
                      ELSE <<>>

\* The headers the configs give, each with its level.
ConfigHeaders ==
  UNION {{[name |-> sidecars[l].headers[i], level |-> l] : i \in DOMAIN sidecars[l].headers} : l \in 1 .. Levels}

OneOfAName(headers) ==
  \A i, j \in DOMAIN headers : Lower(headers[i].name) = Lower(headers[j].name) => i = j

\* A request is sent with one header of a name, the one of its own or of the folder
\* nearest to it, and with the nearest sign-in; all scripts run, from the outside in.
NearestConfigWins ==
  LET resolved == ResolveConfig
      defaults == resolved.defaultHeaders
  IN /\ OneOfAName(defaults) /\ ToSet(defaults) \subseteq ConfigHeaders
     /\ \A h \in ConfigHeaders :
          \E r \in ToSet(defaults) : Lower(r.name) = Lower(h.name) /\ h.level <= r.level
     /\ \A name \in {"g", "H"} :
          LET own == [name |-> name, level |-> Levels + 1]
              merged == MergeRequestHeaders(defaults, <<own>>)
          IN /\ OneOfAName(merged)
             /\ ToSet(merged) = {h \in ToSet(defaults) : Lower(h.name) # Lower(name)} \cup {own}
     /\ ToSet(resolved.scripts) = {l \in 1 .. Levels : sidecars[l].script}
     /\ \A i, j \in DOMAIN resolved.scripts : i < j => resolved.scripts[i] < resolved.scripts[j]
     /\ \A l \in 1 .. Levels : sidecars[l].auth => resolved.auth >= l
     /\ resolved.auth # 0 => resolved.auth \in 1 .. Levels /\ sidecars[resolved.auth].auth

\* A request is sent with the values and the configuration its files say.
SentAsConfigured == DerivedValuesAreExpanded /\ NearestConfigWins
=============================================================================
