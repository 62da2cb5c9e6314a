------------------------------ MODULE MailKeys ------------------------------
(***************************************************************************)
(* The keys of the mail providers: who writes them into the settings row   *)
(* registration_config and which one a batch of registrations gets.        *)
(*                                                                         *)
(* Source: the Go service writes the row, when the console saves its form  *)
(* and when it starts a batch with it (src/internal/server/server.go); the *)
(* sidecar takes what that start sends (scripts/registration_service.py),  *)
(* reads the row for the batches it starts itself (admin/settings_store)   *)
(* and creates mailboxes (upstream/grok_build_adapter.py).                 *)
(*                                                                         *)
(* Each provider has a slot of its own for its key; api_key mirrors the    *)
(* slot of the selected one.  Domains and hosts have slots in the same way *)
(* and are left out, as are cloudmail, of which only Python knows, and     *)
(* keys entered for the wrong provider, which the Go service moves or      *)
(* drops.  set_registration_config in Python has no caller.                *)
(***************************************************************************)
EXTENDS FiniteSets, Naturals

CONSTANTS
    Provider,   \* mail providers that both services have slots for
    Slotless,   \* tempmail: only the Go service has a slot for it, and it needs no key
    Default,    \* "moemail": whose slot stands in where a provider has none
    Mirroring,  \* yyds and cfmail: where their slot is empty the sidecar takes the active key
    Borrowing,  \* cfmail: and where that is empty too the key of Default
    Key,
    Takes,      \* mailSecretFitsSlot: the keys whose prefix lets them into a slot
    EnvKeys,    \* the keys in the environment of the two services
    Saver,      \* requests to the Go service that save
    MaxSaves    \* bound

Named == Provider \cup Slotless

ASSUME MailKeysAssumption ==
    /\ Default \in Provider \ Mirroring /\ Provider \cap Slotless = {}
    /\ Borrowing \subseteq Mirroring /\ Mirroring \subseteq Provider
    /\ "absent" \notin Named /\ {"absent", "empty", "never"} \cap Key = {}
    /\ Takes \in [Named -> SUBSET Key]
    /\ EnvKeys \in [Provider -> Key \cup {"empty"}]
    /\ MaxSaves \in Nat

VARIABLES
    settings, \* registration_config
    saving,   \* the requests that save
    batch,    \* the last batch that was started
    typed,    \* history: the key last saved for each provider
    spoiled,  \* history: two saves at once, or one that could not read the row
    saved     \* saves so far

mailVars == <<settings, saving, batch, typed, spoiled, saved>>

\* due: history, the key last saved for the provider when the batch was put together,
\* or the one entered with it.
NoBatch == [provider |-> "none", key |-> "empty", due |-> "never"]
Unsaved == [mail |-> "absent", active |-> "absent", slot |-> [p \in Named |-> "absent"]]

\* What a request merges into the row it has read, the batch that it starts afterwards,
\* and (history) what was entered in it for each provider.
NotSaving == [step |-> "idle", patch |-> Unsaved, row |-> Unsaved, job |-> NoBatch,
             entered |-> Unsaved.slot]

MailInit ==
    /\ settings = Unsaved /\ saving = [s \in Saver |-> NotSaving] /\ batch = NoBatch
    /\ typed = [p \in Named |-> "never"]
    /\ spoiled = FALSE /\ saved = 0

-----------------------------------------------------------------------------
(* The configuration in the Go service *)

Given(value) == IF value = "absent" THEN "empty" ELSE value

\* sanitizeRegistrationMailSecrets: the active key goes to an empty slot of tempmail; it
\* is then the one of the slot of the selected provider.
Sanitized(config) ==
    LET promoted == /\ config.mail \in Slotless /\ config.slot[config.mail] = "empty"
                    /\ config.active \in Takes[config.mail]
        slot == IF promoted THEN [config.slot EXCEPT ![config.mail] = config.active]
                            ELSE config.slot
    IN  [config EXCEPT !.active = slot[config.mail], !.slot = slot]

\* loadRegistrationConfig: the slot of Default is filled from the environment.
Loaded(stored) ==
    LET config == Sanitized([mail |-> IF stored.mail = "absent" THEN Default ELSE stored.mail,
                             active |-> Given(stored.active),
                             slot |-> [p \in Named |-> Given(stored.slot[p])]])
        fromEnv == /\ config.slot[Default] = "empty" /\ EnvKeys[Default] \in Takes[Default]
    IN  IF fromEnv THEN Sanitized([config EXCEPT !.slot[Default] = EnvKeys[Default]]) ELSE config

\* Mutant of Fill: the active key replaces the one in the slot.
FillAlways(p, slot, active) ==
    IF p \in Provider /\ active \in Takes[p] THEN active ELSE slot[p]

\* The active key goes to the slot of the provider when that is empty.
Fill(p, slot, active) ==
    IF p \in Provider /\ slot[p] = "empty" /\ active \in Takes[p] THEN active ELSE slot[p]

\* mergeRegistrationStartBody with the form: the provider and its key over what is loaded.
Merged(config, p, entry) ==
    LET active == IF entry \in Key THEN entry ELSE config.active
        given == [config.slot EXCEPT ![p] = IF entry \in Key \/ p \in Slotless THEN entry ELSE @]
        slot == [given EXCEPT ![p] = Fill(p, given, active)]
    IN  [mail |-> p, slot |-> slot,
         active |-> IF slot[p] # "empty" THEN slot[p]
                    ELSE IF p \in Mirroring THEN active ELSE "empty"]

\* start_job: the key of the provider, or what stands in for it.
KeyFor(p, config) ==
    IF config.slot[p] # "empty" THEN config.slot[p]
    ELSE IF p \notin Mirroring THEN "empty"
    ELSE IF config.active = "empty" /\ p \in Borrowing THEN config.slot[Default]
    ELSE config.active

\* saveRegistrationConfig: an empty key leaves the one before, but for the provider that
\* needs none; all slots are written.
Patched(old, new) ==
    Sanitized([mail |-> new.mail,
               active |-> IF new.active \in Key THEN new.active ELSE Given(old.active),
               slot |-> [p \in Named |->
                            IF new.slot[p] \in Key \/ (p \in Slotless /\ new.slot[p] = "empty")
                            THEN new.slot[p] ELSE Given(old.slot[p])]])

-----------------------------------------------------------------------------
(* Requests to the Go service *)

Overlaps(s) == \E o \in Saver \ {s} : saving[o] # NotSaving

Begins(s, unread) ==
    /\ saving[s] = NotSaving /\ saved < MaxSaves /\ saved' = saved + 1
    /\ spoiled' = (spoiled \/ Overlaps(s) \/ unread)
    /\ UNCHANGED <<settings, batch, typed>>

\* PUT register-email/config with the form: the selected provider and all keys.
Save(s, p, keys) ==
    /\ Begins(s, FALSE)
    /\ saving' = [saving EXCEPT ![s] = [step |-> "read", row |-> Unsaved, job |-> NoBatch,
                      entered |-> keys,
                      patch |-> [mail |-> p, active |-> keys[p], slot |-> keys]]]

\* registrationConfigPatchForPersist: the key of Default may be another's by now.
ForPersist(config) ==
    [mail |-> config.mail, active |-> config.slot[config.mail],
     slot |-> [q \in Named |-> IF q = Default /\ config.mail # Default THEN "absent"
                               ELSE config.slot[q]]]

\* POST register-email/start with the form: what is merged is saved first.
StartForm(s, p, entry, unread) ==
    /\ Begins(s, unread)
    /\ LET config == Merged(Loaded(IF unread THEN Unsaved ELSE settings), p, entry)
       IN  saving' = [saving EXCEPT ![s] = [step |-> "read", row |-> Unsaved,
                         entered |-> [q \in Named |-> IF q = p THEN entry ELSE "absent"],
                         patch |-> ForPersist(config),
                         job |-> [provider |-> p, key |-> KeyFor(p, config),
                                  due |-> IF entry \in Key THEN entry ELSE typed[p]]]]

\* The row is read; where it cannot be, the patch is all there is.
SaveReads(s, unread) ==
    /\ saving[s].step = "read"
    /\ saving' = [saving EXCEPT ![s].step = "write",
                                ![s].row = IF unread THEN Unsaved ELSE settings]
    /\ spoiled' = (spoiled \/ unread)
    /\ UNCHANGED <<settings, batch, typed, saved>>

Then(s) ==
    saving' = [saving EXCEPT ![s] =
                  IF @.job = NoBatch THEN NotSaving
                  ELSE [NotSaving EXCEPT !.step = "start", !.job = saving[s].job]]

SaveWrites(s) ==
    /\ saving[s].step = "write" /\ Then(s)
    /\ settings' = Patched(saving[s].row, saving[s].patch)
    /\ LET keys == saving[s].entered
       IN  typed' = [p \in Named |->
                       IF keys[p] \in Key \/ (p \in Slotless /\ keys[p] = "empty")
                       THEN keys[p] ELSE typed[p]]
    /\ UNCHANGED <<batch, spoiled, saved>>

\* The row cannot be written; a batch is started all the same.
SaveFails(s) ==
    /\ saving[s].step = "write" /\ Then(s)
    /\ UNCHANGED <<settings, batch, typed, spoiled, saved>>

-----------------------------------------------------------------------------
(* Batches of registrations *)

\* _make_email_receiver: where a batch has no key, the one in the environment.
Received(key) == IF key = "empty" THEN EnvKeys[Default] ELSE key

\* The sidecar starts the batch of the form; no key, no batch.
StartJobs(s) ==
    /\ saving[s].step = "start" /\ saving' = [saving EXCEPT ![s] = NotSaving]
    /\ LET job == saving[s].job
       IN  batch' = IF job.key # "empty" \/ job.provider \in Slotless
                    THEN [job EXCEPT !.key = Received(@)] ELSE batch
    /\ UNCHANGED <<settings, typed, spoiled, saved>>

\* _MAIL_PROVIDER_KEY_FIELDS.get
KeySlot(p) == IF p \in Provider THEN p ELSE Default

\* _pick_str: the environment fills what was never written.
Picked(value, key) == IF value = "absent" THEN key ELSE value

\* _normalize_registration_config: an active key goes to the slot of the selected provider
\* if that is empty, and the active key is then the one of this slot.
Normalized(stored, env) ==
    LET mail == IF stored.mail = "absent" THEN Default ELSE stored.mail
        own == KeySlot(mail)
        filled == [p \in Named |-> IF p \in Slotless THEN stored.slot[p]
                                   ELSE Picked(stored.slot[p], env[p])]
        slot == [filled EXCEPT ![own] =
                    IF @ = "empty" THEN Picked(stored.active, env[Default]) ELSE @]
    IN  [mail |-> mail, active |-> slot[own], slot |-> slot]

NoEnv == [p \in Provider |-> "empty"]

\* resolve_registration_inputs with nothing but a count
Resolved == Normalized(Normalized(settings, EnvKeys), NoEnv)

\* _start_registration_batch, when the pool is low: the configuration as it is stored.
ReplenishBatch ==
    /\ batch' = [provider |-> Resolved.mail, key |-> Received(Resolved.active),
                 due |-> typed[Resolved.mail]]
    /\ UNCHANGED <<settings, saving, typed, spoiled, saved>>

Forms == {keys \in [Named -> Key \cup {"empty"}] :
              \A p \in Named : keys[p] \in Takes[p] \cup {"empty"}}

MailNext ==
    \/ ReplenishBatch
    \/ \E s \in Saver :
          \/ \E p \in Named, keys \in Forms : Save(s, p, keys)
          \/ \E p \in Named, unread \in BOOLEAN :
                \E entry \in Takes[p] \cup {"empty"} : StartForm(s, p, entry, unread)
          \/ \E unread \in BOOLEAN : SaveReads(s, unread)
          \/ SaveWrites(s) \/ SaveFails(s) \/ StartJobs(s)

MailSpec == MailInit /\ [][MailNext]_mailVars

-----------------------------------------------------------------------------
\* settings_store.py:2334, server.go:5223: a batch of a provider for which a key was saved
\* gets the last one, or the one entered with it, whoever starts it, in whatever order
\* providers are selected, saved and left blank, and never what another's is mirrored as.
\* Two saves at once and one that cannot read the row are exempt.
KeyAsSaved ==
    ~spoiled /\ batch.provider \in Provider /\ batch.due \in Key => batch.key = batch.due

\* settings_store.py:2334: the key of a batch mirrors the selected provider, the one that
\* only the Go service has a slot for included.
MirrorsSelected ==
    ~spoiled /\ batch.provider \in Slotless /\ batch.due \in Key => batch.key = batch.due

=============================================================================
