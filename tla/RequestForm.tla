---------------------------- MODULE RequestForm ----------------------------
(***************************************************************************)
(* The editor of a request (RequestTab.tsx): the form is filled from the   *)
(* file, a model is assembled from the form, the raw pane holds the text   *)
(* of the model, and a save writes whichever of the two is shown.          *)
(***************************************************************************)
EXTENDS Naturals, Sequences, SequencesExt

CONSTANT MaxEdits   \* edits of the user

VARIABLES
  form,      \* the state the inputs are bound to
  fileRef,   \* the model the form was last filled from, or saved as
  rawMode,   \* the raw pane is shown
  rawDraft,  \* its text, as the model it parses to
  disk,      \* the file
  saveOf,    \* what the save in flight writes, and whether it began in the raw pane
  base,      \* history: what the form was last filled from
  touched,   \* history: the sections edited since then
  edits      \* edits so far

formVars == <<form, fileRef, rawMode, rawDraft, disk, saveOf, base, touched, edits>>

Unset == "none"

-----------------------------------------------------------------------------
\* A model.  A header is a bearer one when its value begins with Bearer.
Header(n, b, v) == [name |-> n, bearer |-> b, value |-> v]

Authorization == "Authorization"
IsBearer(h) == h.name = Authorization /\ h.bearer
Plain(hs) == FlattenSeq([i \in DOMAIN hs |-> IF IsBearer(hs[i]) THEN <<>> ELSE <<hs[i]>>])
Bearers(hs) == FlattenSeq([i \in DOMAIN hs |-> IF IsBearer(hs[i]) THEN <<hs[i]>> ELSE <<>>])

\* The files that are opened: one sign-in, one kind of body.
SignIns ==
  {[user |-> Unset, auth |-> Unset, bearer |-> <<>>], [user |-> "u:p", auth |-> Unset, bearer |-> <<>>],
   [user |-> Unset, auth |-> "grant", bearer |-> <<>>],
   [user |-> Unset, auth |-> Unset, bearer |-> <<Header(Authorization, TRUE, "t")>>]}
Bodies ==
  {[body |-> b, graphql |-> Unset, formFields |-> Unset] : b \in {Unset, "text"}}
    \cup {[body |-> "data of q", graphql |-> "q", formFields |-> Unset],
          [body |-> Unset, graphql |-> Unset, formFields |-> "f"]}

Model(s, b, headers, disabled, vars, secrets) ==
  [user |-> s.user, auth |-> s.auth, headers |-> headers \o s.bearer, disabled |-> disabled,
   body |-> b.body, graphql |-> b.graphql, formFields |-> b.formFields,
   variables |-> vars, secrets |-> secrets]

Var(d) == [name |-> "V", def |-> d]
Required == "required"

Files ==
  {Model(s, b, <<Header("X", FALSE, "1")>>, <<Header("Y", FALSE, "2")>>, <<Var("x")>>, {}) :
     s \in SignIns, b \in Bodies}
    \cup {Model(s, b, <<>>, <<>>, <<Var(Required)>>, {"V"}) :
             s \in SignIns, b \in {c \in Bodies : c.body = Unset}}

\* What is typed into the raw pane or pasted.
Drafts == {Model(s, b, <<>>, <<>>, <<>>, {}) : s \in SignIns, b \in {c \in Bodies : c.body = "text"}}
            \cup {Model(s, b, <<>>, <<>>, <<>>, {}) : s \in {t \in SignIns : t.auth # Unset}, b \in Bodies}

-----------------------------------------------------------------------------
\* populate: the mode of the body and of the sign-in that a file has.
BodyModeOf(file) ==
  IF file.graphql # Unset THEN "graphql" ELSE IF file.formFields # Unset THEN "multipart" ELSE "raw"

AuthModeOf(file) ==
  CASE file.auth # Unset -> "oauth2"
    [] file.auth = Unset /\ file.user # Unset -> "basic"
    [] OTHER -> IF \E i \in DOMAIN file.headers : IsBearer(file.headers[i]) THEN "bearer" ELSE Unset

Row(h, on) == [enabled |-> on, header |-> h]

\* Variant: the mode of the sign-in is only ever switched on.
AuthModeSticky(f, file) == IF AuthModeOf(file) = Unset THEN f.authMode ELSE AuthModeOf(file)

AuthModeShown(f, file) == AuthModeOf(file)

\* populate: modes a file does not have keep what was in them.
Populate(f, file) ==
  [rows |-> [i \in DOMAIN file.headers |-> Row(file.headers[i], TRUE)]
              \o [i \in DOMAIN file.disabled |-> Row(file.disabled[i], FALSE)],
   bodyMode |-> BodyModeOf(file),
   bodyText |-> file.body,
   gqlQuery |-> IF file.graphql # Unset THEN file.graphql ELSE f.gqlQuery,
   formRows |-> IF file.formFields # Unset THEN file.formFields ELSE f.formRows,
   authMode |-> AuthModeShown(f, file),
   user |-> IF AuthModeOf(file) = "basic" THEN file.user ELSE f.user,
   token |-> IF AuthModeOf(file) = "bearer" THEN Bearers(file.headers)[1].value ELSE f.token,
   oauth |-> IF file.auth # Unset THEN file.auth ELSE f.oauth,
   varRows |-> [i \in DOMAIN file.variables |->
                  [v |-> file.variables[i], secret |-> file.variables[i].name \in file.secrets]]]

EmptyForm ==
  [rows |-> <<>>, bodyMode |-> "raw", bodyText |-> Unset, gqlQuery |-> Unset, formRows |-> Unset,
   authMode |-> Unset, user |-> "u", token |-> "", oauth |-> "grant", varRows |-> <<>>]

Headers(f, on) ==
  FlattenSeq([i \in DOMAIN f.rows |-> IF f.rows[i].enabled = on THEN <<f.rows[i].header>> ELSE <<>>])

\* Disabled headers by name: the last of a name, where the first stood.
PutByName(kept, h) ==
  IF \E i \in DOMAIN kept : kept[i].name = h.name
  THEN [i \in DOMAIN kept |-> IF kept[i].name = h.name THEN h ELSE kept[i]]
  ELSE Append(kept, h)

ByName(hs) ==
  LET kept[i \in 0 .. Len(hs)] == IF i = 0 THEN <<>> ELSE PutByName(kept[i - 1], hs[i])
  IN kept[Len(hs)]

\* Variant: a bearer header is left where it is when the mode is another.
SignedHeadersKept(f) == Headers(f, TRUE)

\* The enabled headers under the sign-in: bearer is written over the authorization
\* header or after the rest, any other mode takes bearer headers away.
SignedHeaders(f) ==
  LET hs == Headers(f, TRUE)
      at == {i \in DOMAIN hs : hs[i].name = Authorization}
      first == CHOOSE i \in at : \A j \in at : i <= j
      bearer == Header(Authorization, TRUE, f.token)
  IN IF f.authMode # "bearer" THEN Plain(hs)
     ELSE IF at = {} THEN Append(hs, bearer) ELSE [hs EXCEPT ![first] = bearer]

\* What the mode of the body leaves of the other modes.
AssembledBody(f) ==
  [body |-> CASE f.bodyMode = "multipart" -> Unset
              [] f.bodyMode = "graphql" -> fileRef.body
              [] OTHER -> f.bodyText,
   graphql |-> IF f.bodyMode = "graphql" THEN f.gqlQuery ELSE Unset,
   formFields |-> IF f.bodyMode = "multipart" THEN f.formRows ELSE Unset]

\* assemble.
Assemble(f) ==
  [user |-> IF f.authMode = "basic" THEN f.user ELSE Unset,
   auth |-> IF f.authMode = "oauth2" THEN f.oauth ELSE Unset,
   headers |-> SignedHeaders(f),
   disabled |-> ByName(Headers(f, FALSE)),
   body |-> AssembledBody(f).body, graphql |-> AssembledBody(f).graphql,
   formFields |-> AssembledBody(f).formFields,
   variables |-> [i \in DOMAIN f.varRows |-> f.varRows[i].v],
   secrets |-> {f.varRows[i].v.name : i \in {k \in DOMAIN f.varRows : f.varRows[k].secret}}]

\* writeRequestFile after stripSecretDefaults, read again: the data of a query is
\* generated, and a secret has no default.
Reread(file) ==
  [file EXCEPT !.body = IF file.graphql = Unset THEN file.body
                        ELSE IF file.graphql = "q" THEN "data of q" ELSE "data of r",
               !.variables = [i \in DOMAIN file.variables |->
                                IF file.variables[i].name \in file.secrets THEN Var(Required)
                                ELSE file.variables[i]]]

NoFormSave == [busy |-> FALSE]
Invalid == [parses |-> FALSE]

FormInit ==
  \E file \in Files :
    /\ disk = file /\ fileRef = file /\ base = file
    /\ form = Populate(EmptyForm, file)
    /\ rawMode = FALSE /\ rawDraft = Invalid /\ saveOf = NoFormSave /\ touched = {} /\ edits = 0

\* A field of the form is edited.
Edit(f, sections) ==
  /\ ~rawMode /\ edits < MaxEdits
  /\ form' = f /\ touched' = touched \cup sections /\ edits' = edits + 1
  /\ UNCHANGED <<fileRef, rawMode, rawDraft, disk, saveOf, base>>

UpdateHeader ==
  \/ \E i \in DOMAIN form.rows :
       \/ Edit([form EXCEPT !.rows[i].enabled = ~form.rows[i].enabled], {"headers"})
       \/ Edit([form EXCEPT !.rows = RemoveAt(form.rows, i)], {"headers"})
  \/ Len(form.rows) < 2 /\ Edit([form EXCEPT !.rows = Append(form.rows, Row(Header("Y", FALSE, "3"), TRUE))],
                                {"headers"})

SetBodyMode == \E m \in {"raw", "graphql", "multipart"} \ {form.bodyMode} :
                 Edit([form EXCEPT !.bodyMode = m], {"bodyMode"})

EditBody ==
  CASE form.bodyMode = "graphql" -> Edit([form EXCEPT !.gqlQuery = "r"], {"body"})
    [] form.bodyMode = "multipart" -> Edit([form EXCEPT !.formRows = "g"], {"body"})
    [] OTHER -> Edit([form EXCEPT !.bodyText = "other"], {"body"})

SetAuthMode == \E m \in {Unset, "basic", "bearer", "oauth2"} \ {form.authMode} :
                 Edit([form EXCEPT !.authMode = m], {"authMode"})

EditAuth ==
  CASE form.authMode = "basic" -> Edit([form EXCEPT !.user = "v:p"], {"auth"})
    [] form.authMode = "bearer" -> Edit([form EXCEPT !.token = "t2"], {"auth"})
    [] form.authMode = "oauth2" -> Edit([form EXCEPT !.oauth = "grant2"], {"auth"})
    [] OTHER -> FALSE

UpdateVar ==
  \/ \E i \in DOMAIN form.varRows :
       \/ Edit([form EXCEPT !.varRows[i].v.def = "y"], {"vars"})
       \/ Edit([form EXCEPT !.varRows[i].secret = ~form.varRows[i].secret], {"vars"})
  \/ form.varRows = <<>> /\ Edit([form EXCEPT !.varRows = <<[v |-> Var("z"), secret |-> FALSE]>>], {"vars"})

\* populate with another model, which is the new base.
Fill(file) ==
  /\ form' = Populate(form, file) /\ fileRef' = file
  /\ base' = file /\ touched' = {}

\* toggleRawMode: the form becomes text, the text becomes the form when it parses.
ToggleRawMode ==
  /\ \/ /\ ~rawMode
        /\ rawDraft' = Reread(Assemble(form)) /\ rawMode' = TRUE
        /\ UNCHANGED <<form, fileRef, base, touched>>
     \/ /\ rawMode /\ rawDraft # Invalid
        /\ Fill(rawDraft) /\ rawMode' = FALSE /\ UNCHANGED rawDraft
  /\ UNCHANGED <<disk, saveOf, edits>>

EditRaw ==
  /\ rawMode /\ edits < MaxEdits
  /\ rawDraft' \in {Invalid} \cup Drafts
  /\ edits' = edits + 1
  /\ UNCHANGED <<form, fileRef, rawMode, disk, saveOf, base, touched>>

\* applyPastedCommand and fillFromParsed: the field for the URL is there in both panes.
Paste ==
  /\ edits < MaxEdits
  /\ \E file \in Drafts : file.graphql = Unset /\ Fill(file)
  /\ edits' = edits + 1
  /\ UNCHANGED <<rawMode, rawDraft, disk, saveOf>>

\* save, up to the write: a draft that does not parse is not saved.
StartSave ==
  /\ ~saveOf.busy
  /\ rawMode => rawDraft # Invalid
  /\ saveOf' = [busy |-> TRUE, raw |-> rawMode, file |-> IF rawMode THEN rawDraft ELSE Assemble(form)]
  /\ UNCHANGED <<form, fileRef, rawMode, rawDraft, disk, base, touched, edits>>

\* The write fails, or the saved model becomes the one the form is of; a save from the
\* raw pane fills the form and the draft with it.
EndSave ==
  /\ saveOf.busy /\ saveOf' = NoFormSave
  /\ \/ UNCHANGED <<form, fileRef, rawDraft, disk, base, touched>>
     \/ /\ disk' = Reread(saveOf.file)
        /\ IF saveOf.raw
           THEN Fill(saveOf.file) /\ rawDraft' = Reread(saveOf.file)
           ELSE fileRef' = saveOf.file /\ UNCHANGED <<form, rawDraft, base, touched>>
  /\ UNCHANGED <<rawMode, edits>>

FormNext ==
  \/ UpdateHeader \/ SetBodyMode \/ EditBody \/ SetAuthMode \/ EditAuth \/ UpdateVar
  \/ ToggleRawMode \/ EditRaw \/ Paste \/ StartSave \/ EndSave

FormSpec == FormInit /\ [][FormNext]_formVars

-----------------------------------------------------------------------------
\* What the form makes of a model says what the model said.
Same(f, g) ==
  /\ f.disabled = g.disabled /\ f.headers = g.headers
  /\ f.user = g.user /\ f.auth = g.auth
  /\ f.graphql = g.graphql /\ f.formFields = g.formFields
  /\ f.variables = g.variables /\ f.secrets = g.secrets

\* A section nobody edited is assembled as the file had it, whatever was switched to
\* and back, pasted, saved or toggled in between: the modes of a file that was open
\* before leave nothing in it, and a sign-in that was chosen instead leaves no other
\* one.  What is saved opens as the model that was saved.
EditsTouchNothingElse ==
  LET now == Assemble(form)
      saved == Reread(now)
  IN /\ "headers" \notin touched =>
          Plain(now.headers) = Plain(base.headers) /\ now.disabled = base.disabled
     /\ "body" \notin touched /\ ("bodyMode" \in touched => form.bodyMode = BodyModeOf(base)) =>
          /\ now.graphql = base.graphql /\ now.formFields = base.formFields
          /\ Reread(now).body = Reread(base).body
     /\ /\ touched \cap {"headers", "auth"} = {}
        /\ "authMode" \in touched => form.authMode = AuthModeOf(base)
        => now.user = base.user /\ now.auth = base.auth /\ Bearers(now.headers) = Bearers(base.headers)
     /\ "vars" \notin touched => now.variables = base.variables /\ now.secrets = base.secrets
     /\ (form.authMode = "bearer") = (Bearers(now.headers) # <<>>)
     /\ Same(Assemble(Populate(form, saved)), saved)
=============================================================================
