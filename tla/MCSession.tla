----------------------------- MODULE MCSession -----------------------------
(* Instances of Session for TLC; the configurations differ in the policies
   that are switched on and in the calls the application makes.          *)
EXTENDS Session

Everything == {"Send", "Disconnect", "DisconnectAfterFlush", "PauseRecv",
               "ResumeRecv", "AppIo"}
PauseOnly == {"PauseRecv", "ResumeRecv"}
OnlyEof == {"eof"}
AllRecvErrors == {"eof", "nobufs", "error"}
OneByte == {1}
OneOrTwo == {1, 2}
=============================================================================
