CONSTANTS
  Settings = {"limit", "voltage"}
  MaxTemperature = "limit"
  BusErrors = {"BUS_OVER_VOLTAGE"}
  Bank = 3
  Temperatures = {20, 90}
  Limit = 70
SPECIFICATION Spec
PROPERTIES AllClearSent
