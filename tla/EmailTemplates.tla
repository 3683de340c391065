----------------------------- MODULE EmailTemplates -----------------------------
(***************************************************************************)
(* The editable mail templates: the catalog, the seeder, the editor and    *)
(* what a worker makes of a template when it sends a mail.                 *)
(*                                                                         *)
(* A text is the set of the placeholders in it.  A behaviour is about the  *)
(* template of one kind of mail: the kinds share nothing.                  *)
(***************************************************************************)
EXTENDS Integers, FiniteSets

CONSTANTS
  Kinds,       \* the kinds of mail considered, keys of the catalog
  Editors,     \* concurrent PATCH requests of the template editor
  Edits,       \* what a request may ask for: the fields it gives
  MaxEvents,   \* bound on the requests, and on what else counts as an event
  Null

ASSUME KindsAssumption ==
  Kinds \subseteq {"verify-email", "email-verified", "reset-password", "registration-code"}

VARIABLES
  kind,        \* the key
  template,    \* its row of email_templates, or Null before it is seeded
  editor,      \* the validated data each request is about to write, or Null
  events       \* how many there were

tvars == <<kind, template, editor, events>>

-----------------------------------------------------------------------------
(***************************************************************************)
(* EMAIL_TEMPLATE_CATALOG.                                                 *)
(***************************************************************************)
Variables(key) ==
  CASE key = "verify-email" -> {"name", "link", "expires_hours"}
    [] key = "email-verified" -> {"name"}
    [] key = "reset-password" -> {"name", "link", "expires_minutes"}
    [] key = "registration-code" -> {"code", "expires_minutes"}

Required(key) ==
  CASE key \in {"verify-email", "reset-password"} -> {"link"}
    [] key = "registration-code" -> {"code"}
    [] key = "email-verified" -> {}

GLOBAL_TEMPLATE_VARIABLES == {"app_name"}

Allowed(key) == Variables(key) \cup GLOBAL_TEMPLATE_VARIABLES

\* The default texts.
BuiltIn(key) ==
  [subject |-> {},
   body |-> IF key \in {"verify-email", "registration-code"}
              THEN Variables(key) \cup {"app_name"} ELSE Variables(key),
   isActive |-> TRUE]

\* templateProblems: unknown variables, and required ones that the body lacks.
TemplateProblems(key, t) ==
  {<<"subject", name>> : name \in t.subject \ Allowed(key)}
    \cup {<<"body", name>> : name \in t.body \ Allowed(key)}
    \cup {<<"body", name>> : name \in Required(key) \ t.body}

-----------------------------------------------------------------------------
(***************************************************************************)
(* The seeder and the editor.                                              *)
(***************************************************************************)
TemplatesInit ==
  /\ kind \in Kinds
  /\ template = Null
  /\ editor = [e \in Editors |-> Null]
  /\ events = 0

Event == events < MaxEvents /\ events' = events + 1

\* createMany with skipDuplicates.
Seed ==
  /\ template = Null
  /\ template' = BuiltIn(kind)
  /\ UNCHANGED <<kind, editor, events>>

\* The fields that data gives, the others from t.
Merged(t, data) ==
  [f \in DOMAIN t |-> IF f \in DOMAIN data THEN data[f] ELSE t[f]]

\* The schema's transform: what the body has inside elements that the sanitizer
\* removes is gone before the service looks at it.
Sanitized(data) ==
  [f \in DOMAIN data |-> IF f = "body" THEN data.body.text ELSE data[f]]

\* Mutant: the body is checked as it was sent.
CheckRaw(e, data) ==
  /\ editor[e] = Null /\ Event
  /\ LET raw == [f \in DOMAIN data |-> IF f = "body" THEN data.body.text \cup data.body.dropped
                                                     ELSE data[f]] IN
     editor' = IF template = Null THEN editor
               ELSE IF TemplateProblems(kind, Merged(template, raw)) # {} THEN editor
               ELSE [editor EXCEPT ![e] = Sanitized(data)]
  /\ UNCHANGED <<kind, template>>

\* update: find, 404 or not, and validation of the row as it would become, before
\* the transaction.
CheckEdit(e, data) ==
  /\ editor[e] = Null /\ Event
  /\ LET clean == Sanitized(data) IN
     editor' = IF template = Null THEN editor
               ELSE IF TemplateProblems(kind, Merged(template, clean)) # {} THEN editor
               ELSE [editor EXCEPT ![e] = clean]
  /\ UNCHANGED <<kind, template>>

\* The transaction writes the given fields to the row as it now is, or fails.
WriteEdit(e) ==
  /\ editor[e] # Null
  /\ \/ template' = Merged(template, editor[e])
     \/ UNCHANGED template
  /\ editor' = [editor EXCEPT ![e] = Null]
  /\ UNCHANGED <<kind, events>>

TemplatesNext ==
  \/ Seed
  \/ \E e \in Editors : WriteEdit(e) \/ \E data \in Edits : CheckEdit(e, data)

-----------------------------------------------------------------------------
(***************************************************************************)
(* Rendering, at the time of sending.                                      *)
(***************************************************************************)
\* Mutant: the code mail does not say how long the code is valid.
ProvidedShort(key) ==
  IF key = "registration-code" THEN {"code", "app_name"} ELSE Allowed(key)

\* The variables email.service passes, and app_name.
Provided(key) ==
  {"app_name"} \cup
  CASE key = "verify-email" -> {"name", "link", "expires_hours"}
    [] key = "reset-password" -> {"name", "link", "expires_minutes"}
    [] key = "email-verified" -> {"name"}
    [] key = "registration-code" -> {"code", "expires_minutes"}

\* Placeholders without a value stay in the text as they are.
Substitute(text, variables) ==
  [shown |-> text \cap variables, raw |-> text \ variables]

\* render: the row when it is active, else the built-in text.
Rendered ==
  LET source == IF template # Null /\ template.isActive THEN template ELSE BuiltIn(kind)
      subject == Substitute(source.subject, Provided(kind))
      body == Substitute(source.body, Provided(kind)) IN
  [shown |-> body.shown, raw |-> subject.raw \cup body.raw]

-----------------------------------------------------------------------------
\* The stored template can always be sent, also after two requests that each
\* changed one of its fields and checked it against a row the other has changed
\* since, and whatever the sanitizer removed (update validates before its
\* transaction).
StoredSendable == template # Null => TemplateProblems(kind, template) = {}
==============================================================================
