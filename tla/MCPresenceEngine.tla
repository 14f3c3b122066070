-------------------------- MODULE MCPresenceEngine --------------------------
(***************************************************************************)
(* Instances of PresenceEngine small enough for TLC.  Two application ids  *)
(* and the placeholder, two looks: the configurations below differ pairwise *)
(* in one field, so that a step between two of them exercises one kind of  *)
(* change.                                                                 *)
(***************************************************************************)
EXTENDS PresenceEngine

CONSTANTS app1, app2, plain, fancy

Of(client, broadcast, look) ==
    [client |-> client, broadcast |-> broadcast, look |-> look]

\* a cosmetic change, another application, and broadcasting off
SettingsCore == {Of(app1, TRUE, plain), Of(app1, TRUE, fancy),
                 Of(app2, TRUE, plain), Of(app1, FALSE, plain)}

\* the same with the unset application id, broadcasting on and off
SettingsAll == SettingsCore \cup {Of(Placeholder, TRUE, plain),
                                  Of(Placeholder, FALSE, plain)}

\* a change of look, and broadcasting off
SettingsLive == {Of(app1, TRUE, plain), Of(app1, TRUE, fancy),
                 Of(app1, FALSE, plain)}

\* one configuration and a change of look
SettingsTwo == {Of(app1, TRUE, plain), Of(app1, TRUE, fancy)}

\* one configuration and a change of application
SettingsApps == {Of(app1, TRUE, plain), Of(app2, TRUE, plain)}
=============================================================================
