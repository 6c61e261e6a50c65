------------------------ MODULE ProviderConfigSafety ------------------------
(* What the configuration of the provider promises *)
EXTENDS ProviderConfig

\* The key the stored provider refers to is in the key store, wherever a
\* configuration failed or the process ended (core.rs: configure).
KeyHeld == provider.key # Nil => provider.key \in keys

\* The stored provider is the one configured last, and is shown as verified
\* only after a check of exactly it: a check under way when the provider
\* changes neither verifies the new one nor brings the old one back, even if
\* it was not cancelled (core.rs: check_model).
VerifiedIsCurrent ==
    /\ provider.generation = latest
    /\ provider.verified => proved = provider.generation

ProviderTrusted == KeyHeld /\ VerifiedIsCurrent

\* Once configure_provider returned, the runtime works under nothing older,
\* whatever check, message or restart was sending it a configuration meanwhile
\* (lib.rs: configure_provider's gate; managed.rs: sync_locked).
NothingSuperseded ==
    gate = Nil /\ runtime.installed # Nil => runtime.installed.generation >= acked

\* What the runtime may still execute was approved under the endpoint and key
\* it now works under.  The exception is real, but it is confined to the
\* providers concerned: when configure ends between its transactions the epoch
\* is not rotated for the one it stored (core.rs:139, managed.rs:
\* provider_changed; managed.py: authorize_configuration).
ApprovalsMatch ==
    runtime.installed # Nil =>
        \A a \in runtime.approved :
            \/ a.generation \in torn \/ runtime.installed.generation \in torn
            \/ a.site = runtime.installed.site /\ a.key = runtime.installed.key

RuntimeFollowsProvider == NothingSuperseded /\ ApprovalsMatch
=============================================================================
