--------------------------- MODULE MCLlmRecovery ---------------------------
(* Small instances of LlmRecovery. *)
EXTENDS LlmRecovery, TLC

\* The past turn called a tool and answered.
MCHistory ==
    {<<UserMsg(Past), CallsMsg(Past, 1, 1), ToolMsg(Past, 1, 1), AnswerMsg(Past)>>}
=============================================================================
