--------------------------- MODULE PartnerContract ---------------------------
(***************************************************************************)
(* The operations of the partner API as partner.gen.go and the handlers of *)
(* transport/http/partner have them, in the terms of KitchenContract, and  *)
(* what the client of the venue service makes of the answers.              *)
(***************************************************************************)
EXTENDS Contract

GetMeBinds   == NoParameters
GetMeDecodes == "nothing"
GetMeWrites  == {200, 401, 500}
GetMeReads   == {200, 401, 500}
GetMeServed  == Handled("venue", {200}, {"not_found"}, FALSE)

SyncMenuBinds   == NoParameters
SyncMenuDecodes == "body"
SyncMenuWrites  == {200, 400, 401, 500}
SyncMenuReads   == {200, 400, 401, 500}
SyncMenuServed  == Handled("venue", {200}, {"invalid"}, TRUE)

PatchMenuItemBinds   == [external_id |-> "text"]
PatchMenuItemDecodes == "body"
PatchMenuItemWrites  == {200, 400, 401, 404, 500}
PatchMenuItemReads   == {200, 400, 401, 404, 500}
PatchMenuItemServed  == Handled("venue", {200}, {"invalid", "not_found"}, TRUE)

ListPartnerOrdersBinds   == [status |-> "text", since |-> "time", cursor |-> "text", limit |-> "number"]
ListPartnerOrdersDecodes == "nothing"
ListPartnerOrdersWrites  == {200, 400, 401, 500}
ListPartnerOrdersReads   == {200, 400, 401, 500}
ListPartnerOrdersServed  == Handled("venue", {}, {"not_implemented"}, FALSE)

GetPartnerOrderBinds   == [order_id |-> "uuid"]
GetPartnerOrderDecodes == "nothing"
GetPartnerOrderWrites  == {200, 401, 404, 500}
GetPartnerOrderReads   == {200, 401, 404, 500}
GetPartnerOrderServed  == Handled("venue", {200}, {"not_found"}, FALSE)

AcceptOrderBinds   == [order_id |-> "uuid"]
AcceptOrderDecodes == "body"
AcceptOrderWrites  == {200, 400, 401, 404, 409, 500}
AcceptOrderReads   == {200, 400, 401, 404, 409, 500}
AcceptOrderServed  == Handled("venue", {200}, {"not_found", "transition"}, TRUE)

StartCookingBinds   == [order_id |-> "uuid"]
StartCookingDecodes == "nothing"
StartCookingWrites  == {200, 401, 404, 409, 500}
StartCookingReads   == {200, 401, 404, 409, 500}
StartCookingServed  == Handled("venue", {200}, {"not_found", "transition"}, TRUE)

HandoverOrderBinds   == [order_id |-> "uuid"]
HandoverOrderDecodes == "nothing"
HandoverOrderWrites  == {200, 401, 404, 409, 500}
HandoverOrderReads   == {200, 401, 404, 409, 500}
HandoverOrderServed  == Handled("venue", {200}, {"not_found", "transition"}, TRUE)

MarkReadyBinds   == [order_id |-> "uuid"]
MarkReadyDecodes == "nothing"
MarkReadyWrites  == {200, 401, 404, 409, 500}
MarkReadyReads   == {200, 401, 404, 409, 500}
MarkReadyServed  == Handled("venue", {200}, {"not_found", "transition"}, TRUE)

RejectOrderBinds   == [order_id |-> "uuid"]
RejectOrderDecodes == "body"
RejectOrderWrites  == {200, 400, 401, 404, 409, 500}
RejectOrderReads   == {200, 400, 401, 404, 409, 500}
RejectOrderServed  == Handled("venue", {200}, {"not_found", "transition"}, TRUE)

CloseShiftBinds   == NoParameters
CloseShiftDecodes == "nothing"
CloseShiftWrites  == {200, 401, 500}
CloseShiftReads   == {200, 401, 500}
CloseShiftServed  == Handled("venue", {200}, {"not_found"}, TRUE)

OpenShiftBinds   == NoParameters
OpenShiftDecodes == "nothing"
OpenShiftWrites  == {200, 401, 500}
OpenShiftReads   == {200, 401, 500}
OpenShiftServed  == Handled("venue", {200}, {"not_found"}, TRUE)

PartnerOperations == [
   GetMe             |-> Operation(GetMeBinds, GetMeDecodes, GetMeWrites,
                                    GetMeReads, GetMeServed),
   SyncMenu          |-> Operation(SyncMenuBinds, SyncMenuDecodes, SyncMenuWrites,
                                    SyncMenuReads, SyncMenuServed),
   PatchMenuItem     |-> Operation(PatchMenuItemBinds, PatchMenuItemDecodes, PatchMenuItemWrites,
                                    PatchMenuItemReads, PatchMenuItemServed),
   ListPartnerOrders |-> Operation(ListPartnerOrdersBinds, ListPartnerOrdersDecodes, ListPartnerOrdersWrites,
                                    ListPartnerOrdersReads, ListPartnerOrdersServed),
   GetPartnerOrder   |-> Operation(GetPartnerOrderBinds, GetPartnerOrderDecodes, GetPartnerOrderWrites,
                                    GetPartnerOrderReads, GetPartnerOrderServed),
   AcceptOrder       |-> Operation(AcceptOrderBinds, AcceptOrderDecodes, AcceptOrderWrites,
                                    AcceptOrderReads, AcceptOrderServed),
   StartCooking      |-> Operation(StartCookingBinds, StartCookingDecodes, StartCookingWrites,
                                    StartCookingReads, StartCookingServed),
   HandoverOrder     |-> Operation(HandoverOrderBinds, HandoverOrderDecodes, HandoverOrderWrites,
                                    HandoverOrderReads, HandoverOrderServed),
   MarkReady         |-> Operation(MarkReadyBinds, MarkReadyDecodes, MarkReadyWrites,
                                    MarkReadyReads, MarkReadyServed),
   RejectOrder       |-> Operation(RejectOrderBinds, RejectOrderDecodes, RejectOrderWrites,
                                    RejectOrderReads, RejectOrderServed),
   CloseShift        |-> Operation(CloseShiftBinds, CloseShiftDecodes, CloseShiftWrites,
                                    CloseShiftReads, CloseShiftServed),
   OpenShift         |-> Operation(OpenShiftBinds, OpenShiftDecodes, OpenShiftWrites,
                                    OpenShiftReads, OpenShiftServed)]

\* What a venue takes an answer for.  A status the list does not name says
\* nothing: the call may have been carried out or not.
Learns(status) ==
   CASE status \in 200..299 -> "done"
     [] status = 401 -> "unauthorized"
     [] status = 404 -> "not_found"
     [] status = 409 -> "refused"
     [] OTHER -> "failed"

\* The calls whose answer the venue reads further than its status.
Dereferenced == {"GetMe", "SyncMenu", "GetPartnerOrder"}
=============================================================================
