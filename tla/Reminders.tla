------------------------------- MODULE Reminders -------------------------------
(***************************************************************************)
(* RequestWorkflowService.sendRequestReminder, RemindersService and its    *)
(* three providers, and the mails of AuthService, which take the same way: *)
(* the plan is asked, the provider takes the message, and an audit event   *)
(* records it.  The plan's monthly limits count those audit events.        *)
(***************************************************************************)
EXTENDS Entitlements

CONSTANTS
    EnvironmentHasKeys,   \* channels whose credentials are in the environment
    Production            \* NODE_ENV

ASSUME ReminderAssumption == EnvironmentHasKeys \subseteq Channel /\ Production \in BOOLEAN

VARIABLES
    config,   \* the channels whose provider configuration is enabled and has credentials
    sent      \* the calls whose message a provider has taken (external)

KeyOf(channel) == CASE channel = "email" -> "emailPerMonth"
                    [] channel = "sms"   -> "smsPerMonth"
                    [] OTHER             -> None

\* upsertProviderConfig writes a configuration as a whole; one that is switched
\* off, or has no credentials, is as good as none.
UpsertProviderConfig(channel, usable) ==
    /\ config' = IF usable THEN config \cup {channel} ELSE config \ {channel}
    /\ UNCHANGED <<usageVars, call, sent, observed>>

SendRequestReminder(c, channel, r) ==
    /\ Idle(c)
    /\ AssertWithinLimit(c, KeyOf(channel), 1,
           [NoCall EXCEPT !.op = "remind", !.pc = "readRequest", !.channel = channel, !.request = r])
    /\ UNCHANGED <<usageVars, config, sent, troubled>>

\* An invite, a verification or a password reset of AuthService.
SendAccountMail(c) ==
    /\ Idle(c)
    /\ AssertWithinLimit(c, "emailPerMonth", 1,
           [NoCall EXCEPT !.op = "remind", !.pc = "readConfig", !.channel = "email"])
    /\ UNCHANGED <<usageVars, config, sent, troubled>>

ReadRequest(c) ==
    /\ At(c, "remind", "readRequest")
    /\ IF request[call[c].request] = "active" THEN Go(c, "readConfig") ELSE End(c)
    /\ UNCHANGED <<usageVars, config, sent, observed>>

\* Without credentials a provider only simulates, and refuses in production.
HasKeys(channel) == channel \in config \cup EnvironmentHasKeys

ReadConfig(c) ==
    /\ At(c, "remind", "readConfig")
    /\ IF HasKeys(call[c].channel) \/ ~Production
       THEN Become(c, [call[c] EXCEPT !.pc = "send", !.live = HasKeys(call[c].channel)])
       ELSE End(c)
    /\ UNCHANGED <<usageVars, config, sent, observed>>

Send(c) ==
    /\ At(c, "remind", "send")
    /\ sent' = IF call[c].live THEN sent \cup {c} ELSE sent
    /\ Go(c, "audit")
    /\ UNCHANGED <<usageVars, config, observed>>

\* Mistake: the providers' errors are taken for an acceptance.
SendThrowsIgnored(c) ==
    /\ At(c, "remind", "send") /\ call[c].live
    /\ \/ UNCHANGED <<sent, troubled>>
       \/ sent' = sent \cup {c} /\ Trouble(c)
    /\ Go(c, "audit")
    /\ UNCHANGED <<usageVars, config, excused>>

\* The provider refuses the message, or takes it and gives no usable answer.
SendThrows(c) ==
    /\ At(c, "remind", "send") /\ call[c].live
    /\ \/ UNCHANGED <<sent, troubled>>
       \/ sent' = sent \cup {c} /\ Trouble(c)
    /\ End(c)
    /\ UNCHANGED <<usageVars, config, excused>>

\* AuditLogService.record swallows the error of its insert.
Audit(c) ==
    /\ At(c, "remind", "audit")
    /\ \/ /\ mailed' = mailed \cup {[call |-> c, channel |-> call[c].channel, month |-> month]}
          /\ UNCHANGED troubled
       \/ UNCHANGED mailed /\ Trouble(c)
    /\ call' = [call EXCEPT ![c].pc = "announce", ![c].holds = None]
    /\ UNCHANGED <<fileRow, request, month, config, sent, excused>>

\* emitEvent may throw; the message is out and counted all the same.
AnnounceReminder(c) ==
    /\ At(c, "remind", "announce")
    /\ End(c)
    /\ UNCHANGED <<usageVars, config, sent, observed>>

ReminderInit ==
    /\ config = {}
    /\ sent = {}

ReminderNext ==
    \/ \E channel \in Channel, usable \in BOOLEAN : UpsertProviderConfig(channel, usable)
    \/ \E c \in Call, channel \in Channel, r \in Request : SendRequestReminder(c, channel, r)
    \/ \E c \in Call : \/ SendAccountMail(c) \/ ReadRequest(c) \/ ReadConfig(c)
                       \/ Send(c) \/ SendThrows(c) \/ Audit(c) \/ AnnounceReminder(c)
=============================================================================
