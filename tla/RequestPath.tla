----------------------------- MODULE RequestPath -----------------------------
(***************************************************************************)
(* What the front end, the authenticator, the dispatcher and the back end  *)
(* handler do to a request before a provider executes it.                  *)
(*                                                                         *)
(* A request has the fields of its header (auth_type, provider, opcode,    *)
(* content_type, accept_type), readable (read_from_stream succeeds), auth  *)
(* (the name it declares, Missing if its bytes are not one), body_ok (the  *)
(* body can be decoded), name (of the key) and client (of DeleteClient).   *)
(* peer is the identity that is vouched for, Missing if there is none: by  *)
(* the operating system for the user at the other end of the socket, by    *)
(* the SPIFFE Workload API for a token.                                    *)
(***************************************************************************)
EXTENDS ServiceBuilder

(* What an authenticator returns: a status, and the application. *)
Application(authenticator, name) ==
  [status |-> "Success", name |-> name, is_admin |-> name \in authenticator.admins]

Refused(status) == [status |-> status, name |-> Missing, is_admin |-> FALSE]

DirectAuthenticate(authenticator, r) ==
  IF r.auth = Missing THEN Refused("AuthenticationError")
  ELSE Application(authenticator, r.auth)

(* Fault: the user of the connection is not compared with the declared one. *)
Mut_UnixPeerAuthenticate(authenticator, r) ==
  IF r.auth = Missing \/ r.peer = Missing THEN Refused("AuthenticationError")
  ELSE Application(authenticator, r.auth)

UnixPeerAuthenticate(authenticator, r) ==
  IF r.auth = Missing \/ r.peer = Missing \/ r.peer # r.auth
  THEN Refused("AuthenticationError")
  ELSE Application(authenticator, r.peer)

JwtSvidAuthenticate(authenticator, r) ==
  IF r.auth = Missing THEN Refused("InvalidEncoding")
  ELSE IF r.peer = Missing THEN Refused("AuthenticationError")
  ELSE Application(authenticator, r.peer)

(* handle_request of the front end, until the dispatch.  Without           *)
(* authentication there is no application, and no error either.            *)
Authenticate(service, r) ==
  IF ~r.readable THEN Refused("InvalidHeader")
  ELSE IF r.auth_type = "NoAuth" THEN Refused("Success")
  ELSE IF r.auth_type \notin DOMAIN service.authenticators
    THEN Refused("AuthenticatorNotRegistered")
  ELSE LET authenticator == service.authenticators[r.auth_type]
       IN  IF r.auth_type = "Direct" THEN DirectAuthenticate(authenticator, r)
           ELSE IF r.auth_type = "UnixPeerCredentials"
             THEN UnixPeerAuthenticate(authenticator, r)
           ELSE JwtSvidAuthenticate(authenticator, r)

-----------------------------------------------------------------------------
IsCapable(handler, r) ==
  IF (handler.provider_id = "Core") # (r.opcode \in CoreOpcodes) THEN "PsaErrorNotSupported"
  ELSE IF r.provider # handler.provider_id THEN "WrongProviderId"
  ELSE IF r.content_type # handler.content_type THEN "ContentTypeNotSupported"
  ELSE IF r.accept_type # handler.accept_type THEN "AcceptTypeNotSupported"
  ELSE "Success"

(* Fault: any authenticated application may do what an admin may. *)
Mut_ExecuteRequest(app, r) ==
  IF r.opcode \in AdminOpcodes /\ app.name = Missing THEN "NotAuthenticated"
  ELSE IF ~r.body_ok THEN "DeserializingBodyFailed"
  ELSE IF r.opcode \in KeyOpcodes \cup {"ListKeys"} /\ app.name = Missing
    THEN "NotAuthenticated"
  ELSE "Execute"

(* execute_request until the call of the provider, which "Execute" is. *)
ExecuteRequest(app, r) ==
  IF r.opcode \in AdminOpcodes /\ app.name = Missing THEN "NotAuthenticated"
  ELSE IF r.opcode \in AdminOpcodes /\ ~app.is_admin THEN "AdminOperation"
  ELSE IF ~r.body_ok THEN "DeserializingBodyFailed"
  ELSE IF r.opcode \in KeyOpcodes \cup {"ListKeys"} /\ app.name = Missing
    THEN "NotAuthenticated"
  ELSE "Execute"

(* dispatch_request *)
DispatchRequest(service, app, r) ==
  IF r.provider \notin DOMAIN service.backends THEN "ProviderNotRegistered"
  ELSE LET capable == IsCapable(service.backends[r.provider], r)
       IN  IF capable = "Success" THEN ExecuteRequest(app, r) ELSE capable

(* handle_request: "Execute", or the status of the response. *)
HandleRequest(service, r) ==
  LET app == Authenticate(service, r)
  IN  IF app.status # "Success" THEN app.status ELSE DispatchRequest(service, app, r)
=============================================================================
