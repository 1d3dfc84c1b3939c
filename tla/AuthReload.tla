----------------------------- MODULE AuthReload -----------------------------
(***************************************************************************)
(* The way in which users log in (ldap, oidc, dingding, cas, or local      *)
(* accounts only) as the superusers' page saves and reloads it.  It lives  *)
(* in four places: the rows of sql_config, the managed block of the .env   *)
(* file, os.environ of each web process, and the settings module of each.  *)
(* A reload carries the first into the other three, or should leave all    *)
(* three as they were.                                                     *)
(*                                                                         *)
(* Each way has one parameter here, named after one of its keys, that      *)
(* stands for all of them; of oidc_btn_name the page alone knows.  The     *)
(* user's own lines of .env say nothing about logging in.                  *)
(***************************************************************************)
EXTENDS Naturals, FiniteSets

CONSTANTS
  Procs,         \* web processes
  NoProc,        \* none of them
  Admins,        \* requests of superusers that can be in flight together
  Providers,     \* the ways the superusers try, among ldap, oidc, dingding and cas
  Values,        \* what a parameter can be set to
  LdapInstalled, \* whether python-ldap is there
  MaxSaves,      \* bound: saves of the page
  MaxBreaks      \* bound: settings modules that raise, processes that die

ASSUME ReloadAssumption ==
  /\ Providers \subseteq {"ldap", "oidc", "dingding", "cas"}
  /\ NoProc \notin Procs
  /\ "" \notin Values /\ LdapInstalled \in BOOLEAN
  /\ MaxSaves \in Nat /\ MaxBreaks \in Nat

auth_provider == Providers \cup {"local"}

AUTH_PROVIDER_KEYS ==
  [local |-> {}, ldap |-> {"auth_ldap_server_uri"}, dingding |-> {"ding_app_secret"},
   cas |-> {"cas_server_url"}, oidc |-> {"oidc_rp_client_id", "oidc_btn_name"}]

Keys == UNION {AUTH_PROVIDER_KEYS[p] : p \in Providers}
InEnv == Keys \ {"oidc_btn_name"}    \* _DBKEY_TO_ENV
Secrets == {"ding_app_secret"}
Defaulted == {"auth_ldap_server_uri"} \* what the settings module reads with a default

EnvKeysOf(p) == AUTH_PROVIDER_KEYS[p] \cap InEnv

\* What a set of variables says: the flags ENABLE_*, which are always written together
\* with one of them on at most, and the parameters ("" is not set).
Lines == [on : auth_provider \cup {"absent"}, val : [Keys -> Values \cup {""}]]
NoLines == [on |-> "absent", val |-> [k \in Keys |-> ""]]

\* .env: the user's own lines, and the managed block.
EnvFile == [user : BOOLEAN, block : Lines]
Truncated == [user |-> FALSE, block |-> NoLines]

\* What a process works with, django's settings: the way enabled, the one that
\* AUTHENTICATION_BACKENDS lists before local accounts, and the parameters.  kept is the
\* backends of the settings MODULE, which may have been left half executed; broken is a
\* ghost: it raised in a rollback, too.
Settings == [enabled : auth_provider, backend : auth_provider, val : [Keys -> Values \cup {""}],
             kept : auth_provider, broken : BOOLEAN]

AuthConfig == [provider : auth_provider, val : [Keys -> Values \cup {""}]]
NoAuthConfig == [provider |-> "local", val |-> NoLines.val]

\* A request, with what reload_auth_config has in its variables.
Admin == [pc : {"idle", "params", "ask", "read", "open", "write", "apply", "settings",
                "reopen", "rewrite", "again"},
          proc : Procs \cup {NoProc}, answer : {"none", "ok", "busy", "failed", "rolled back"},
          cfg : AuthConfig, original : EnvFile, snap : Lines]

VARIABLES
  auth_config, \* the rows of sql_config
  envFile,     \* .env
  environ,     \* process -> its os.environ
  settings,    \* process -> its settings module
  lock,        \* process -> _RELOAD_LOCK is held
  rq,          \* request -> where it is
  saves,       \* saves so far
  breaks,      \* faults so far
  mixed        \* ghost: two processes reloaded at a time, or one died in a reload

reloadVars == <<auth_config, envFile, environ, settings, lock, rq, saves, breaks, mixed>>

-----------------------------------------------------------------------------
(* What the steps compute.                                                 *)

\* environ.Env.read_env: a line of .env counts where the variable is not set.
read_env(e, block) ==
  [on |-> IF e.on = "absent" THEN block.on ELSE e.on,
   val |-> [k \in Keys |-> IF e.val[k] = "" THEN block.val[k] ELSE e.val[k]]]

WayOf(e) == IF e.on = "absent" THEN "local" ELSE e.on
Imported(p) == p = "ldap" => LdapInstalled

\* Whether the module assigns AUTHENTICATION_BACKENDS: local accounts assign none.
Assigns(e) == WayOf(e) # "local" /\ Imported(WayOf(e))

\* dbshield/settings.py from line 345 on.  A way whose library or parameter is missing is
\* turned off; that was after its backends were set, but for an ImportError.  Reloading a
\* module keeps the names that it does not assign.
Evaluate(s, e) ==
  LET p == WayOf(e)
      complete == \A k \in EnvKeysOf(p) \ Defaulted : e.val[k] # ""
      enabled  == IF Imported(p) /\ complete THEN p ELSE "local"
      backends == IF Assigns(e) THEN p ELSE s.kept
  IN [enabled |-> enabled, backend |-> backends, kept |-> backends, broken |-> FALSE,
      val     |-> [k \in Keys |-> IF k \in EnvKeysOf(enabled) THEN e.val[k] ELSE ""]]

NewModule == [enabled |-> "local", backend |-> "local", val |-> NoLines.val,
              kept |-> "local", broken |-> FALSE]

\* A process that starts with this file.
Started(file) == Evaluate(NewModule, read_env(NoLines, file.block))

_build_managed_block(cfg) ==
  [on |-> cfg.provider,
   val |-> [k \in Keys |-> IF k \in EnvKeysOf(cfg.provider) THEN cfg.val[k] ELSE ""]]

\* _apply_to_environ: the flags, and the parameters of the way chosen; others stay.
_apply_to_environ(e, cfg) ==
  [on |-> cfg.provider,
   val |-> [k \in Keys |-> IF k \in EnvKeysOf(cfg.provider) THEN cfg.val[k] ELSE e.val[k]]]

\* The last key of oidc has no variable: os.environ.pop(None, None) is a TypeError.
ApplyRaises(cfg) == ~ AUTH_PROVIDER_KEYS[cfg.provider] \subseteq InEnv

-----------------------------------------------------------------------------
(* Requests.                                                               *)

At(h, pc) == rq[h].pc = pc
Goto(h, pc) == rq' = [rq EXCEPT ![h].pc = pc]
InReload(h) == rq[h].pc \notin {"idle", "params", "ask"}

NoRequest ==
  [pc |-> "idle", proc |-> NoProc, answer |-> "none", cfg |-> NoAuthConfig,
   original |-> Truncated, snap |-> NoLines]

\* The end of reload_auth_config; finally gives the lock back.
Answer(h, answer) ==
  /\ rq' = [rq EXCEPT ![h] = [NoRequest EXCEPT !.answer = answer]]
  /\ lock' = [lock EXCEPT ![rq[h].proc] = FALSE]

\* set_auth_config saves the provider ...
SaveProvider(h, p) ==
  /\ At(h, "idle")
  /\ saves < MaxSaves
  /\ \E provider \in auth_provider : auth_config' = [auth_config EXCEPT !.provider = provider]
  /\ rq' = [rq EXCEPT ![h] = [NoRequest EXCEPT !.proc = p, !.pc = "params", !.cfg = auth_config']]
  /\ saves' = saves + 1
  /\ UNCHANGED <<envFile, environ, settings, lock, breaks, mixed>>

\* ... and then its parameters, but for a secret that came empty.  The body says whether a
\* reload follows.
SaveParams(h) ==
  LET keys == AUTH_PROVIDER_KEYS[rq[h].cfg.provider] IN
  /\ At(h, "params")
  /\ \E v \in Values \cup {""} :
       auth_config' = [auth_config EXCEPT !.val = [k \in Keys |->
         IF k \in keys /\ ~ (v = "" /\ k \in Secrets) THEN v ELSE @[k]]]
  /\ rq' \in {[rq EXCEPT ![h] = NoRequest],
             [rq EXCEPT ![h] = [NoRequest EXCEPT !.proc = rq[h].proc, !.pc = "ask"]]}
  /\ UNCHANGED <<envFile, environ, settings, lock, saves, breaks, mixed>>

\* ReloadAuthConfigView: a reload without a save.
AskReload(h, p) ==
  /\ At(h, "idle")
  /\ rq' = [rq EXCEPT ![h] = [NoRequest EXCEPT !.proc = p, !.pc = "ask"]]
  /\ UNCHANGED <<auth_config, envFile, environ, settings, lock, saves, breaks, mixed>>

-----------------------------------------------------------------------------
(* reload_auth_config.                                                     *)

Busy(h) ==
  /\ At(h, "ask")
  /\ lock[rq[h].proc]
  /\ rq' = [rq EXCEPT ![h] = [NoRequest EXCEPT !.answer = "busy"]]
  /\ UNCHANGED <<auth_config, envFile, environ, settings, lock, saves, breaks, mixed>>

\* The lock is taken and the configuration read, in one step (SaveProvider and SaveParams
\* show what is read between two rows of a save).
Begin(h) ==
  LET p == rq[h].proc IN
  /\ At(h, "ask")
  /\ ~ lock[p]
  /\ lock' = [lock EXCEPT ![p] = TRUE]
  /\ rq' = [rq EXCEPT ![h].pc = "read", ![h].cfg = auth_config]
  /\ mixed' = (mixed \/ \E q \in Procs : lock[q])
  /\ UNCHANGED <<auth_config, envFile, environ, settings, saves, breaks>>

\* _rewrite_env: .env is read, opened for writing, which empties it, and written.
ReadEnv(h) ==
  /\ At(h, "read")
  /\ rq' = [rq EXCEPT ![h].pc = "open", ![h].original = envFile]
  /\ UNCHANGED <<auth_config, envFile, environ, settings, lock, saves, breaks, mixed>>

OpenEnv(h) ==
  /\ At(h, "open")
  /\ envFile' = Truncated
  /\ Goto(h, "write")
  /\ UNCHANGED <<auth_config, environ, settings, lock, saves, breaks, mixed>>

\* Slip: the whole file is the managed block.
WriteEnv_all(h) ==
  /\ At(h, "write")
  /\ envFile' = [user |-> FALSE, block |-> _build_managed_block(rq[h].cfg)]
  /\ rq' = [rq EXCEPT ![h].pc = "apply", ![h].snap = environ[rq[h].proc]]
  /\ UNCHANGED <<auth_config, environ, settings, lock, saves, breaks, mixed>>

\* The file is written, and then _snapshot_environ taken.
WriteEnv(h) ==
  /\ At(h, "write")
  /\ envFile' = [rq[h].original EXCEPT !.block = _build_managed_block(rq[h].cfg)]
  /\ rq' = [rq EXCEPT ![h].pc = "apply", ![h].snap = environ[rq[h].proc]]
  /\ UNCHANGED <<auth_config, environ, settings, lock, saves, breaks, mixed>>

\* _apply_to_environ.  An exception goes to the outer handler, which
\* answers and restores nothing.
Apply(h) ==
  LET p == rq[h].proc IN
  /\ At(h, "apply")
  /\ environ' = [environ EXCEPT ![p] = _apply_to_environ(@, rq[h].cfg)]
  /\ IF ApplyRaises(rq[h].cfg)
     THEN Answer(h, "failed")
     ELSE Goto(h, "settings") /\ UNCHANGED lock
  /\ UNCHANGED <<auth_config, envFile, settings, saves, breaks, mixed>>

EnvRead(p) == read_env(environ[p], envFile.block)

Reevaluate(p) ==
  LET e == EnvRead(p) IN
  /\ environ' = [environ EXCEPT ![p] = e]
  /\ settings' = [settings EXCEPT ![p] = Evaluate(@, e)]

ReloadSettings(h) ==
  /\ At(h, "settings")
  /\ Reevaluate(rq[h].proc)
  /\ Answer(h, "ok")
  /\ UNCHANGED <<auth_config, envFile, saves, breaks, mixed>>

\* A module that raises, before it comes to logging in or at its end (a directory that cannot
\* be made, local_settings), has assigned no backends or its own; django's settings stay
\* bound to what they were.
HalfEvaluated(p, broken) ==
  \E kept \in {settings[p].kept, Evaluate(settings[p], EnvRead(p)).kept} :
    settings' = [settings EXCEPT ![p].kept = kept, ![p].broken = broken]

\* Slip: os.environ is not restored.
SettingsRaise_environ(h) ==
  /\ At(h, "settings")
  /\ breaks < MaxBreaks /\ breaks' = breaks + 1
  /\ HalfEvaluated(rq[h].proc, settings[rq[h].proc].broken)
  /\ Goto(h, "reopen")
  /\ UNCHANGED <<auth_config, envFile, environ, lock, saves, mixed>>

\* The settings module raises; os.environ is restored ...
SettingsRaise(h) ==
  /\ At(h, "settings")
  /\ breaks < MaxBreaks /\ breaks' = breaks + 1
  /\ HalfEvaluated(rq[h].proc, settings[rq[h].proc].broken)
  /\ environ' = [environ EXCEPT ![rq[h].proc] = rq[h].snap]
  /\ Goto(h, "reopen")
  /\ UNCHANGED <<auth_config, envFile, lock, saves, mixed>>

\* ... .env too ...
ReopenEnv(h) ==
  /\ At(h, "reopen")
  /\ envFile' = Truncated
  /\ Goto(h, "rewrite")
  /\ UNCHANGED <<auth_config, environ, settings, lock, saves, breaks, mixed>>

RestoreEnv(h) ==
  /\ At(h, "rewrite")
  /\ envFile' = rq[h].original
  /\ Goto(h, "again")
  /\ UNCHANGED <<auth_config, environ, settings, lock, saves, breaks, mixed>>

\* ... and the settings, unless the module raises again, before or after it read .env; the
\* log then asks for a restart.
ReloadAgain(h) ==
  LET p == rq[h].proc IN
  /\ At(h, "again")
  /\ \/ Reevaluate(p) /\ UNCHANGED breaks
     \/ /\ breaks < MaxBreaks /\ breaks' = breaks + 1
        /\ HalfEvaluated(p, TRUE)
        /\ environ' \in {environ, [environ EXCEPT ![p] = EnvRead(p)]}
  /\ Answer(h, "rolled back")
  /\ UNCHANGED <<auth_config, envFile, saves, mixed>>

\* A process dies and is started again.
Restart(p) ==
  /\ breaks < MaxBreaks /\ breaks' = breaks + 1
  /\ rq' = [h \in Admins |-> IF rq[h].proc = p THEN NoRequest ELSE rq[h]]
  /\ lock' = [lock EXCEPT ![p] = FALSE]
  /\ environ' = [environ EXCEPT ![p] = read_env(NoLines, envFile.block)]
  /\ settings' = [settings EXCEPT ![p] = Started(envFile)]
  /\ mixed' = (mixed \/ lock[p] \/ ~ envFile.user)
  /\ UNCHANGED <<auth_config, envFile, saves>>

ReloadInit ==
  /\ auth_config = NoAuthConfig
  /\ envFile = [user |-> TRUE, block |-> NoLines]
  /\ environ = [p \in Procs |-> NoLines]
  /\ settings = [p \in Procs |-> NewModule]
  /\ lock = [p \in Procs |-> FALSE]
  /\ rq = [h \in Admins |-> NoRequest]
  /\ saves = 0 /\ breaks = 0 /\ mixed = FALSE

ReloadStep(h) ==
  \/ Busy(h) \/ Begin(h) \/ ReadEnv(h) \/ OpenEnv(h) \/ WriteEnv(h) \/ Apply(h)
  \/ ReloadSettings(h) \/ SettingsRaise(h) \/ ReopenEnv(h) \/ RestoreEnv(h) \/ ReloadAgain(h)

ReloadNext ==
  \/ \E h \in Admins :
       \/ \E p \in Procs : SaveProvider(h, p) \/ AskReload(h, p)
       \/ SaveParams(h) \/ ReloadStep(h)
  \/ \E p \in Procs : Restart(p)

ReloadSpec == ReloadInit /\ [][ReloadNext]_reloadVars

-----------------------------------------------------------------------------
(* Properties.                                                             *)

ReloadTypeOK ==
  /\ auth_config \in AuthConfig
  /\ envFile \in EnvFile
  /\ environ \in [Procs -> Lines]
  /\ settings \in [Procs -> Settings]
  /\ lock \in [Procs -> BOOLEAN]
  /\ rq \in [Admins -> Admin]
  /\ saves \in 0..MaxSaves /\ breaks \in 0..MaxBreaks /\ mixed \in BOOLEAN

\* The user's own lines of .env outlive every reload that has the file for itself.
UserLinesSurvive ==
  ~ mixed /\ ~ envFile.user => \E h \in Admins : rq[h].pc \in {"write", "rewrite"}

Ends(h, answers) == InReload(h) /\ rq'[h].pc = "idle" /\ rq'[h].answer \in answers

SameLogin(s, t) == s.enabled = t.enabled /\ s.val = t.val

\* .env, os.environ and the settings are as they were, but for the backends.
Restored(h) ==
  LET p == rq[h].proc IN
  /\ envFile' = rq[h].original
  /\ environ'[p] = rq[h].snap
  /\ SameLogin(settings'[p], settings[p])

SameBackend(h) == LET p == rq[h].proc IN settings'[p].backend = settings[p].backend

\* What the docstring of reload_auth_config promises of a failure: all is as it was.
FailedReloadRestores ==
  [][\A h \in Admins : Ends(h, {"failed", "rolled back"}) => Restored(h) /\ SameBackend(h)]_reloadVars

\* A reload that gave up on the settings module restores all three, when no other process
\* reloads meanwhile, .env has nothing that this process has not read, and no earlier
\* rollback raised too.  The backends are back only if the variables restored name a way of
\* their own, or the module did not raise at its end (settings.py:600-611): it has assigned
\* the new backends by then, and a return to local accounts assigns none in their place.
Known(h) == read_env(rq[h].snap, rq[h].original.block) = rq[h].snap

RollbackRestores(h) ==
  LET p == rq[h].proc IN
  ~ mixed /\ Ends(h, {"rolled back"}) /\ Known(h) /\ ~ settings[p].broken =>
    /\ Restored(h)
    /\ (Assigns(rq[h].snap) \/ settings[p].kept = settings[p].backend) => SameBackend(h)

\* After a reload that went well the process uses the way and the parameters that the page
\* had saved, not what earlier reloads left behind, and a process that starts later will
\* use the same.
SuccessUsesConfig(h) ==
  ~ mixed /\ Ends(h, {"ok"}) =>
    LET s == settings'[rq[h].proc]
        fits(k) == s.val[k] = rq[h].cfg.val[k]
    IN /\ s.enabled \in {rq[h].cfg.provider, "local"}
       /\ \A k \in EnvKeysOf(s.enabled) : fits(k)
       /\ SameLogin(s, Started(envFile'))

\* A reload does all that was saved, or leaves everything as it was.
ReloadIsAllOrNothing == [][\A h \in Admins : RollbackRestores(h) /\ SuccessUsesConfig(h)]_reloadVars

\* AUTHENTICATION_BACKENDS is evaluated again (auth_settings_reload.py:14): a reload that
\* went well leaves the process as a start would.
ReloadActsAsStart ==
  [][\A h \in Admins :
       ~ mixed /\ Ends(h, {"ok"}) => settings'[rq[h].proc] = Started(envFile')]_reloadVars
=============================================================================
