-------------------------- MODULE MCRegistryShared --------------------------
(* Two processes that use one registry file, without any other fault.        *)
EXTENDS RegistryFile
=============================================================================
