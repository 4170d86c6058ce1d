----------------------------- MODULE MCVoiceClient -----------------------------
(* VoiceClient for TLC, in three scenes: reconnects, failures and late         *)
(* answers; the microphone; and what is heard of whom.                         *)
EXTENDS VoiceClient

CONSTANTS s1, s2, s3, m1

Scene(sessions, mids, adjusts, answers_, failures) ==
    [sessions |-> sessions, mids |-> mids, adjusts |-> adjusts, answers |-> answers_,
     failures |-> failures]

MCScenes == {Scene({s1, s2, s3}, {}, {}, 2, 2),
             Scene({s1, s2}, {}, {"microphone"}, 1, 1),
             Scene({s1, s2}, {m1}, {"hearing"}, 1, 1)}
=============================================================================
