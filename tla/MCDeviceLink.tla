---------------------------- MODULE MCDeviceLink ----------------------------
(* DeviceLink on small instances: which settings an operator may save. *)
EXTENDS DeviceLink

SerialSetting == [type |-> "serial", ports |-> Paths]
TcpSetting == [type |-> "tcp", ports |-> {}]

SerialOnly == {SerialSetting}
TcpOnly == {TcpSetting}
SerialOrTcp == {SerialSetting, TcpSetting}
=============================================================================
