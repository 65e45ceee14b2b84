SPECIFICATION DriversSpec
CONSTANTS
  Users = {u1, u2}
  MayFail = {"class", "lux-chardev", "lux-irq", "lux-leds", "f0-bars", "vector", "workqueue",
             "region", "cdev", "node", "chip", "lookup", "pins", "leds", "mcleds", "LED", "LED_ERR"}
  MaxLoads = 6
INVARIANTS NothingLeftBehind  NeverDispatchedToNull LinesHaveAFile
CHECK_DEADLOCK FALSE
