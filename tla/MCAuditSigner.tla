--------------------------- MODULE MCAuditSigner ---------------------------
(* AuditSigner with one worker, two open transactions and no failures, for      *)
(* AuditSignerOrder.cfg.                                                        *)
EXTENDS AuditSigner

=============================================================================
