------------------------------ MODULE Messages ------------------------------
(***************************************************************************)
(* The messages of the native API (components/api/api_pb2.cpp): for each,  *)
(* the fields that encode writes, in that order and each with the function *)
(* that writes it, and the cases of its decode_ functions, each with the   *)
(* cast it applies.  A field is named after the member that holds it.      *)
(***************************************************************************)
EXTENDS Proto

Schema(writes, reads) == [encode |-> writes, decode |-> reads]

HelloRequest == Schema(<<string(1, "client_info")>>, {as_string(1, "client_info")})
HelloResponse == Schema(
    <<uint32(1, "api_version_major"), uint32(2, "api_version_minor"), string(3, "server_info")>>,
    {as_uint32(1, "api_version_major"), as_uint32(2, "api_version_minor"), as_string(3, "server_info")})
ConnectRequest == Schema(<<string(1, "password")>>, {as_string(1, "password")})
ConnectResponse == Schema(<<bool(1, "invalid_password")>>, {as_bool(1, "invalid_password")})
DisconnectRequest == Schema(<<>>, {})
DisconnectResponse == Schema(<<>>, {})
PingRequest == Schema(<<>>, {})
PingResponse == Schema(<<>>, {})
DeviceInfoRequest == Schema(<<>>, {})
DeviceInfoResponse == Schema(
    <<bool(1, "uses_password"), string(2, "name"), string(3, "mac_address"), string(4, "esphome_version"),
    string(5, "compilation_time"), string(6, "model"), bool(7, "has_deep_sleep"), string(8, "project_name"),
    string(9, "project_version")>>,
    {as_bool(1, "uses_password"), as_bool(7, "has_deep_sleep"), as_string(2, "name"),
    as_string(3, "mac_address"), as_string(4, "esphome_version"), as_string(5, "compilation_time"),
    as_string(6, "model"), as_string(8, "project_name"), as_string(9, "project_version")})
ListEntitiesRequest == Schema(<<>>, {})
ListEntitiesDoneResponse == Schema(<<>>, {})
SubscribeStatesRequest == Schema(<<>>, {})
ListEntitiesBinarySensorResponse == Schema(
    <<string(1, "object_id"), fixed32(2, "key"), string(3, "name"), string(4, "unique_id"),
    string(5, "device_class"), bool(6, "is_status_binary_sensor")>>,
    {as_bool(6, "is_status_binary_sensor"), as_string(1, "object_id"), as_string(3, "name"),
    as_string(4, "unique_id"), as_string(5, "device_class"), as_fixed32(2, "key")})
BinarySensorStateResponse == Schema(
    <<fixed32(1, "key"), bool(2, "state"), bool(3, "missing_state")>>,
    {as_bool(2, "state"), as_bool(3, "missing_state"), as_fixed32(1, "key")})
ListEntitiesCoverResponse == Schema(
    <<string(1, "object_id"), fixed32(2, "key"), string(3, "name"), string(4, "unique_id"),
    bool(5, "assumed_state"), bool(6, "supports_position"), bool(7, "supports_tilt"),
    string(8, "device_class")>>,
    {as_bool(5, "assumed_state"), as_bool(6, "supports_position"), as_bool(7, "supports_tilt"),
    as_string(1, "object_id"), as_string(3, "name"), as_string(4, "unique_id"), as_string(8, "device_class"),
    as_fixed32(2, "key")})
CoverStateResponse == Schema(
    <<fixed32(1, "key"), enum(2, "legacy_state"), float(3, "position"), float(4, "tilt"),
    enum(5, "current_operation")>>,
    {as_enum(2, "legacy_state"), as_enum(5, "current_operation"), as_fixed32(1, "key"), as_float(3, "position"),
    as_float(4, "tilt")})
CoverCommandRequest == Schema(
    <<fixed32(1, "key"), bool(2, "has_legacy_command"), enum(3, "legacy_command"), bool(4, "has_position"),
    float(5, "position"), bool(6, "has_tilt"), float(7, "tilt"), bool(8, "stop")>>,
    {as_bool(2, "has_legacy_command"), as_enum(3, "legacy_command"), as_bool(4, "has_position"),
    as_bool(6, "has_tilt"), as_bool(8, "stop"), as_fixed32(1, "key"), as_float(5, "position"),
    as_float(7, "tilt")})
ListEntitiesFanResponse == Schema(
    <<string(1, "object_id"), fixed32(2, "key"), string(3, "name"), string(4, "unique_id"),
    bool(5, "supports_oscillation"), bool(6, "supports_speed"), bool(7, "supports_direction"),
    int32(8, "supported_speed_count")>>,
    {as_bool(5, "supports_oscillation"), as_bool(6, "supports_speed"), as_bool(7, "supports_direction"),
    as_int32(8, "supported_speed_count"), as_string(1, "object_id"), as_string(3, "name"),
    as_string(4, "unique_id"), as_fixed32(2, "key")})
FanStateResponse == Schema(
    <<fixed32(1, "key"), bool(2, "state"), bool(3, "oscillating"), enum(4, "speed"), enum(5, "direction"),
    int32(6, "speed_level")>>,
    {as_bool(2, "state"), as_bool(3, "oscillating"), as_enum(4, "speed"), as_enum(5, "direction"),
    as_int32(6, "speed_level"), as_fixed32(1, "key")})
FanCommandRequest == Schema(
    <<fixed32(1, "key"), bool(2, "has_state"), bool(3, "state"), bool(4, "has_speed"), enum(5, "speed"),
    bool(6, "has_oscillating"), bool(7, "oscillating"), bool(8, "has_direction"), enum(9, "direction"),
    bool(10, "has_speed_level"), int32(11, "speed_level")>>,
    {as_bool(2, "has_state"), as_bool(3, "state"), as_bool(4, "has_speed"), as_enum(5, "speed"),
    as_bool(6, "has_oscillating"), as_bool(7, "oscillating"), as_bool(8, "has_direction"),
    as_enum(9, "direction"), as_bool(10, "has_speed_level"), as_int32(11, "speed_level"), as_fixed32(1, "key")})
ListEntitiesLightResponse == Schema(
    <<string(1, "object_id"), fixed32(2, "key"), string(3, "name"), string(4, "unique_id"),
    bool(5, "supports_brightness"), bool(6, "supports_rgb"), bool(7, "supports_white_value"),
    bool(8, "supports_color_temperature"), float(9, "min_mireds"), float(10, "max_mireds"),
    every(string(11, "effects"))>>,
    {as_bool(5, "supports_brightness"), as_bool(6, "supports_rgb"), as_bool(7, "supports_white_value"),
    as_bool(8, "supports_color_temperature"), as_string(1, "object_id"), as_string(3, "name"),
    as_string(4, "unique_id"), push_back(as_string(11, "effects")), as_fixed32(2, "key"),
    as_float(9, "min_mireds"), as_float(10, "max_mireds")})
LightStateResponse == Schema(
    <<fixed32(1, "key"), bool(2, "state"), float(3, "brightness"), float(10, "color_brightness"),
    float(4, "red"), float(5, "green"), float(6, "blue"), float(7, "white"), float(8, "color_temperature"),
    string(9, "effect")>>,
    {as_bool(2, "state"), as_string(9, "effect"), as_fixed32(1, "key"), as_float(3, "brightness"),
    as_float(10, "color_brightness"), as_float(4, "red"), as_float(5, "green"), as_float(6, "blue"),
    as_float(7, "white"), as_float(8, "color_temperature")})
LightCommandRequest == Schema(
    <<fixed32(1, "key"), bool(2, "has_state"), bool(3, "state"), bool(4, "has_brightness"),
    float(5, "brightness"), bool(20, "has_color_brightness"), float(21, "color_brightness"), bool(6, "has_rgb"),
    float(7, "red"), float(8, "green"), float(9, "blue"), bool(10, "has_white"), float(11, "white"),
    bool(12, "has_color_temperature"), float(13, "color_temperature"), bool(14, "has_transition_length"),
    uint32(15, "transition_length"), bool(16, "has_flash_length"), uint32(17, "flash_length"),
    bool(18, "has_effect"), string(19, "effect")>>,
    {as_bool(2, "has_state"), as_bool(3, "state"), as_bool(4, "has_brightness"),
    as_bool(20, "has_color_brightness"), as_bool(6, "has_rgb"), as_bool(10, "has_white"),
    as_bool(12, "has_color_temperature"), as_bool(14, "has_transition_length"),
    as_uint32(15, "transition_length"), as_bool(16, "has_flash_length"), as_uint32(17, "flash_length"),
    as_bool(18, "has_effect"), as_string(19, "effect"), as_fixed32(1, "key"), as_float(5, "brightness"),
    as_float(21, "color_brightness"), as_float(7, "red"), as_float(8, "green"), as_float(9, "blue"),
    as_float(11, "white"), as_float(13, "color_temperature")})
ListEntitiesSensorResponse == Schema(
    <<string(1, "object_id"), fixed32(2, "key"), string(3, "name"), string(4, "unique_id"), string(5, "icon"),
    string(6, "unit_of_measurement"), int32(7, "accuracy_decimals"), bool(8, "force_update"),
    string(9, "device_class"), enum(10, "state_class"), enum(11, "last_reset_type")>>,
    {as_int32(7, "accuracy_decimals"), as_bool(8, "force_update"), as_enum(10, "state_class"),
    as_enum(11, "last_reset_type"), as_string(1, "object_id"), as_string(3, "name"), as_string(4, "unique_id"),
    as_string(5, "icon"), as_string(6, "unit_of_measurement"), as_string(9, "device_class"),
    as_fixed32(2, "key")})
SensorStateResponse == Schema(
    <<fixed32(1, "key"), float(2, "state"), bool(3, "missing_state")>>,
    {as_bool(3, "missing_state"), as_fixed32(1, "key"), as_float(2, "state")})
ListEntitiesSwitchResponse == Schema(
    <<string(1, "object_id"), fixed32(2, "key"), string(3, "name"), string(4, "unique_id"), string(5, "icon"),
    bool(6, "assumed_state")>>,
    {as_bool(6, "assumed_state"), as_string(1, "object_id"), as_string(3, "name"), as_string(4, "unique_id"),
    as_string(5, "icon"), as_fixed32(2, "key")})
SwitchStateResponse == Schema(
    <<fixed32(1, "key"), bool(2, "state")>>,
    {as_bool(2, "state"), as_fixed32(1, "key")})
SwitchCommandRequest == Schema(
    <<fixed32(1, "key"), bool(2, "state")>>,
    {as_bool(2, "state"), as_fixed32(1, "key")})
ListEntitiesTextSensorResponse == Schema(
    <<string(1, "object_id"), fixed32(2, "key"), string(3, "name"), string(4, "unique_id"), string(5, "icon")>>,
    {as_string(1, "object_id"), as_string(3, "name"), as_string(4, "unique_id"), as_string(5, "icon"),
    as_fixed32(2, "key")})
TextSensorStateResponse == Schema(
    <<fixed32(1, "key"), string(2, "state"), bool(3, "missing_state")>>,
    {as_bool(3, "missing_state"), as_string(2, "state"), as_fixed32(1, "key")})
SubscribeLogsRequest == Schema(
    <<enum(1, "level"), bool(2, "dump_config")>>,
    {as_enum(1, "level"), as_bool(2, "dump_config")})
SubscribeLogsResponse == Schema(
    <<enum(1, "level"), string(2, "tag"), string(3, "message"), bool(4, "send_failed")>>,
    {as_enum(1, "level"), as_bool(4, "send_failed"), as_string(2, "tag"), as_string(3, "message")})
SubscribeHomeassistantServicesRequest == Schema(<<>>, {})
HomeassistantServiceMap == Schema(
    <<string(1, "key"), string(2, "value")>>,
    {as_string(1, "key"), as_string(2, "value")})
HomeassistantServiceResponse == Schema(
    <<string(1, "service"), every(message(2, "data", HomeassistantServiceMap)),
    every(message(3, "data_template", HomeassistantServiceMap)),
    every(message(4, "variables", HomeassistantServiceMap)), bool(5, "is_event")>>,
    {as_bool(5, "is_event"), as_string(1, "service"), push_back(as_message(2, "data", HomeassistantServiceMap)),
    push_back(as_message(3, "data_template", HomeassistantServiceMap)),
    push_back(as_message(4, "variables", HomeassistantServiceMap))})
SubscribeHomeAssistantStatesRequest == Schema(<<>>, {})
SubscribeHomeAssistantStateResponse == Schema(
    <<string(1, "entity_id"), string(2, "attribute")>>,
    {as_string(1, "entity_id"), as_string(2, "attribute")})
HomeAssistantStateResponse == Schema(
    <<string(1, "entity_id"), string(2, "state"), string(3, "attribute")>>,
    {as_string(1, "entity_id"), as_string(2, "state"), as_string(3, "attribute")})
GetTimeRequest == Schema(<<>>, {})
GetTimeResponse == Schema(<<fixed32(1, "epoch_seconds")>>, {as_fixed32(1, "epoch_seconds")})
ListEntitiesServicesArgument == Schema(
    <<string(1, "name"), enum(2, "type")>>,
    {as_enum(2, "type"), as_string(1, "name")})
ListEntitiesServicesResponse == Schema(
    <<string(1, "name"), fixed32(2, "key"), every(message(3, "args", ListEntitiesServicesArgument))>>,
    {as_string(1, "name"), push_back(as_message(3, "args", ListEntitiesServicesArgument)),
    as_fixed32(2, "key")})
ExecuteServiceArgument == Schema(
    <<bool(1, "bool_"), int32(2, "legacy_int"), float(3, "float_"), string(4, "string_"), sint32(5, "int_"),
    every(bool(6, "bool_array")), every(sint32(7, "int_array")), every(float(8, "float_array")),
    every(string(9, "string_array"))>>,
    {as_bool(1, "bool_"), as_int32(2, "legacy_int"), as_sint32(5, "int_"), push_back(as_bool(6, "bool_array")),
    push_back(as_sint32(7, "int_array")), as_string(4, "string_"), push_back(as_string(9, "string_array")),
    as_float(3, "float_"), push_back(as_float(8, "float_array"))})
ExecuteServiceRequest == Schema(
    <<fixed32(1, "key"), every(message(2, "args", ExecuteServiceArgument))>>,
    {push_back(as_message(2, "args", ExecuteServiceArgument)), as_fixed32(1, "key")})
ListEntitiesCameraResponse == Schema(
    <<string(1, "object_id"), fixed32(2, "key"), string(3, "name"), string(4, "unique_id")>>,
    {as_string(1, "object_id"), as_string(3, "name"), as_string(4, "unique_id"), as_fixed32(2, "key")})
CameraImageResponse == Schema(
    <<fixed32(1, "key"), string(2, "data"), bool(3, "done")>>,
    {as_bool(3, "done"), as_string(2, "data"), as_fixed32(1, "key")})
CameraImageRequest == Schema(
    <<bool(1, "single"), bool(2, "stream")>>,
    {as_bool(1, "single"), as_bool(2, "stream")})
ListEntitiesClimateResponse == Schema(
    <<string(1, "object_id"), fixed32(2, "key"), string(3, "name"), string(4, "unique_id"),
    bool(5, "supports_current_temperature"), bool(6, "supports_two_point_target_temperature"),
    every(enum(7, "supported_modes")), float(8, "visual_min_temperature"), float(9, "visual_max_temperature"),
    float(10, "visual_temperature_step"), bool(11, "legacy_supports_away"), bool(12, "supports_action"),
    every(enum(13, "supported_fan_modes")), every(enum(14, "supported_swing_modes")),
    every(string(15, "supported_custom_fan_modes")), every(enum(16, "supported_presets")),
    every(string(17, "supported_custom_presets"))>>,
    {as_bool(5, "supports_current_temperature"), as_bool(6, "supports_two_point_target_temperature"),
    push_back(as_enum(7, "supported_modes")), as_bool(11, "legacy_supports_away"),
    as_bool(12, "supports_action"), push_back(as_enum(13, "supported_fan_modes")),
    push_back(as_enum(14, "supported_swing_modes")), push_back(as_enum(16, "supported_presets")),
    as_string(1, "object_id"), as_string(3, "name"), as_string(4, "unique_id"),
    push_back(as_string(15, "supported_custom_fan_modes")),
    push_back(as_string(17, "supported_custom_presets")), as_fixed32(2, "key"),
    as_float(8, "visual_min_temperature"), as_float(9, "visual_max_temperature"),
    as_float(10, "visual_temperature_step")})
ClimateStateResponse == Schema(
    <<fixed32(1, "key"), enum(2, "mode"), float(3, "current_temperature"), float(4, "target_temperature"),
    float(5, "target_temperature_low"), float(6, "target_temperature_high"), bool(7, "legacy_away"),
    enum(8, "action"), enum(9, "fan_mode"), enum(10, "swing_mode"), string(11, "custom_fan_mode"),
    enum(12, "preset"), string(13, "custom_preset")>>,
    {as_enum(2, "mode"), as_bool(7, "legacy_away"), as_enum(8, "action"), as_enum(9, "fan_mode"),
    as_enum(10, "swing_mode"), as_enum(12, "preset"), as_string(11, "custom_fan_mode"),
    as_string(13, "custom_preset"), as_fixed32(1, "key"), as_float(3, "current_temperature"),
    as_float(4, "target_temperature"), as_float(5, "target_temperature_low"),
    as_float(6, "target_temperature_high")})
ClimateCommandRequest == Schema(
    <<fixed32(1, "key"), bool(2, "has_mode"), enum(3, "mode"), bool(4, "has_target_temperature"),
    float(5, "target_temperature"), bool(6, "has_target_temperature_low"), float(7, "target_temperature_low"),
    bool(8, "has_target_temperature_high"), float(9, "target_temperature_high"), bool(10, "has_legacy_away"),
    bool(11, "legacy_away"), bool(12, "has_fan_mode"), enum(13, "fan_mode"), bool(14, "has_swing_mode"),
    enum(15, "swing_mode"), bool(16, "has_custom_fan_mode"), string(17, "custom_fan_mode"),
    bool(18, "has_preset"), enum(19, "preset"), bool(20, "has_custom_preset"), string(21, "custom_preset")>>,
    {as_bool(2, "has_mode"), as_enum(3, "mode"), as_bool(4, "has_target_temperature"),
    as_bool(6, "has_target_temperature_low"), as_bool(8, "has_target_temperature_high"),
    as_bool(10, "has_legacy_away"), as_bool(11, "legacy_away"), as_bool(12, "has_fan_mode"),
    as_enum(13, "fan_mode"), as_bool(14, "has_swing_mode"), as_enum(15, "swing_mode"),
    as_bool(16, "has_custom_fan_mode"), as_bool(18, "has_preset"), as_enum(19, "preset"),
    as_bool(20, "has_custom_preset"), as_string(17, "custom_fan_mode"), as_string(21, "custom_preset"),
    as_fixed32(1, "key"), as_float(5, "target_temperature"), as_float(7, "target_temperature_low"),
    as_float(9, "target_temperature_high")})
ListEntitiesNumberResponse == Schema(
    <<string(1, "object_id"), fixed32(2, "key"), string(3, "name"), string(4, "unique_id"), string(5, "icon"),
    float(6, "min_value"), float(7, "max_value"), float(8, "step")>>,
    {as_string(1, "object_id"), as_string(3, "name"), as_string(4, "unique_id"), as_string(5, "icon"),
    as_fixed32(2, "key"), as_float(6, "min_value"), as_float(7, "max_value"), as_float(8, "step")})
NumberStateResponse == Schema(
    <<fixed32(1, "key"), float(2, "state"), bool(3, "missing_state")>>,
    {as_bool(3, "missing_state"), as_fixed32(1, "key"), as_float(2, "state")})
NumberCommandRequest == Schema(
    <<fixed32(1, "key"), float(2, "state")>>,
    {as_fixed32(1, "key"), as_float(2, "state")})
-----------------------------------------------------------------------------
(***************************************************************************)
(* Message types (api_pb2_service.cpp): the number each message is sent    *)
(* under, and those that read_message knows.                               *)
(***************************************************************************)
\* What the device sends.
sent ==
    2 :> HelloResponse @@ 4 :> ConnectResponse @@ 5 :> DisconnectRequest @@ 6 :> DisconnectResponse @@
    7 :> PingRequest @@ 8 :> PingResponse @@ 10 :> DeviceInfoResponse @@
    12 :> ListEntitiesBinarySensorResponse @@ 13 :> ListEntitiesCoverResponse @@
    14 :> ListEntitiesFanResponse @@ 15 :> ListEntitiesLightResponse @@ 16 :> ListEntitiesSensorResponse @@
    17 :> ListEntitiesSwitchResponse @@ 18 :> ListEntitiesTextSensorResponse @@
    19 :> ListEntitiesDoneResponse @@ 21 :> BinarySensorStateResponse @@ 22 :> CoverStateResponse @@
    23 :> FanStateResponse @@ 24 :> LightStateResponse @@ 25 :> SensorStateResponse @@
    26 :> SwitchStateResponse @@ 27 :> TextSensorStateResponse @@ 29 :> SubscribeLogsResponse @@
    35 :> HomeassistantServiceResponse @@ 36 :> GetTimeRequest @@ 37 :> GetTimeResponse @@
    39 :> SubscribeHomeAssistantStateResponse @@ 41 :> ListEntitiesServicesResponse @@
    43 :> ListEntitiesCameraResponse @@ 44 :> CameraImageResponse @@ 46 :> ListEntitiesClimateResponse @@
    47 :> ClimateStateResponse @@ 49 :> ListEntitiesNumberResponse @@ 50 :> NumberStateResponse

\* What read_message decodes.
read_message ==
    1 :> HelloRequest @@ 3 :> ConnectRequest @@ 5 :> DisconnectRequest @@ 6 :> DisconnectResponse @@
    7 :> PingRequest @@ 8 :> PingResponse @@ 9 :> DeviceInfoRequest @@ 11 :> ListEntitiesRequest @@
    20 :> SubscribeStatesRequest @@ 28 :> SubscribeLogsRequest @@ 30 :> CoverCommandRequest @@
    31 :> FanCommandRequest @@ 32 :> LightCommandRequest @@ 33 :> SwitchCommandRequest @@
    34 :> SubscribeHomeassistantServicesRequest @@ 36 :> GetTimeRequest @@ 37 :> GetTimeResponse @@
    38 :> SubscribeHomeAssistantStatesRequest @@ 40 :> HomeAssistantStateResponse @@
    42 :> ExecuteServiceRequest @@ 45 :> CameraImageRequest @@ 48 :> ClimateCommandRequest @@
    51 :> NumberCommandRequest
=============================================================================
